---------------------------- MODULE Spec2Model ----------------------------
(***************************************************************************)
(* A model of the Stickman entity of stickman.py together with the         *)
(* collision-map provider of screen_read.py.                               *)
(*                                                                         *)
(* Numbers.  The main loop always calls update() with dt = DT =            *)
(* 1/TARGET_FPS.  Velocities are whole px/s, so every displacement v * dt  *)
(* is a whole number of 1/TARGET_FPS pixels.  Positions are therefore kept *)
(* in sub-pixel units of 1/TARGET_FPS px (exact rationals; the rounding of *)
(* binary floating point in positions is not modelled).  The timers and    *)
(* accumulators are kept in units of dt.  In binary64 DT lies just below   *)
(* 1/60, which shows in the tick counts: 0.3 - 18 * DT and 3.0 - 180 * DT  *)
(* are still positive, so the punch timer elapses in its 19th tick and the *)
(* kamehameha timer in its 181st; twelve additions of DT stay below        *)
(* COLLISION_MAP_DT = 0.2, so the first refresh happens in the 13th tick   *)
(* and, the remainder being one DT, every 12th tick after it; sixty        *)
(* additions of DT reach 1.0, so the colour is sampled every 60th tick.    *)
(*                                                                         *)
(* Optional values (None or a value) are sequences of length 0 or 1.       *)
(***************************************************************************)
EXTENDS Integers, Sequences, FiniteSets, TLC

\* ------------------------------------------------------------------ constants

TARGET_FPS == 60
COLLISION_MAP_FPS == 5
\* COLLISION_MAP_DT / DT: the collision accumulator's threshold in units of dt
COLLISION_MAP_DT == TARGET_FPS \div COLLISION_MAP_FPS
\* the 1.0 s threshold of _color_sample_accum in units of dt
COLOR_SAMPLE_DT == TARGET_FPS

DefaultWidth == 21
DefaultHeight == 30
DefaultSpeed == 280
DefaultJumpVelocity == 500
DefaultGravity == 1800
DefaultMaxFallSpeed == 500
ScreenWidth == 1920
ScreenHeight == 1200
CapturePadding == 100
IgnoreRows == 5
TeleportOffset == 50
\* self._punch_timer = 0.3 and self._kamehameha_timer = 3.0, in units of dt:
\* the number of decrements by DT after which the timer is <= 0
PunchDuration == (3 * TARGET_FPS) \div 10 + 1
KamehamehaDuration == 3 * TARGET_FPS + 1
BlastLength == 1000
BlastHalfHeight == 25
AnimationPeriod == 30
AnimationStep == 3

\* ------------------------------------------------------------------ arithmetic

None == << >>
Some(v) == << v >>

Max(a, b) == IF a >= b THEN a ELSE b
Min(a, b) == IF a <= b THEN a ELSE b

\* n pixels in sub-pixel units
Px(n) == n * TARGET_FPS
\* int(np.floor(v)) and int(np.ceil(v)) of a position v given in sub-pixel units
Floor(v) == IF v >= 0 THEN v \div TARGET_FPS ELSE -((-v + TARGET_FPS - 1) \div TARGET_FPS)
Ceil(v) == -Floor(-v)
\* Python's int(v): truncation toward zero
Trunc(v) == IF v >= 0 THEN Floor(v) ELSE Ceil(v)

\* ------------------------------------------------------------------ collision primitives

\* region.any() over cm[top_c:bottom_c, left_c:right_c]; cells are <<row, col>>
RegionAny(cm, top_c, bottom_c, left_c, right_c) ==
    \E c \in cm.cells : /\ top_c <= c[1] /\ c[1] < bottom_c
                        /\ left_c <= c[2] /\ c[2] < right_c

_aabb_collides_outside_solid(s, x, y) ==
    IF s.collision_map = None THEN FALSE
    ELSE
    LET cm == s.collision_map[1]
        left == Floor(x) - s.collision_map_x
        top == Floor(y) - s.collision_map_y
        right == Ceil(x + Px(s.width)) - s.collision_map_x
        bottom == Ceil(y + Px(s.height)) - s.collision_map_y
    IN  IF right <= 0 \/ bottom <= 0 \/ left >= cm.W \/ top >= cm.H THEN TRUE
        ELSE RegionAny(cm, Max(0, top), Min(cm.H, bottom), Max(0, left), Min(cm.W, right))

_aabb_collides(s, x, y) ==
    IF s.collision_map = None THEN FALSE
    ELSE
    LET cm == s.collision_map[1]
        H == cm.H
        W == cm.W
        left == Floor(x) - s.collision_map_x
        top == Floor(y) - s.collision_map_y
        right == Ceil(x + Px(s.width)) - s.collision_map_x
        bottom == Ceil(y + Px(s.height)) - s.collision_map_y
    IN  IF right <= 0 \/ bottom <= 0 \/ left >= W \/ top >= H THEN FALSE
        ELSE
        LET left_c == Max(0, left)
            top_c == Max(0, top)
            right_c == Min(W, right)
            bottom_c == Min(H, bottom)
        IN  IF right_c <= left_c \/ bottom_c <= top_c THEN FALSE
            ELSE RegionAny(cm, top_c, bottom_c, left_c, right_c)

_aabb_collides_ignore_bottom(s, x, y, ignore_rows) ==
    IF s.collision_map = None THEN FALSE
    ELSE
    LET cm == s.collision_map[1]
        H == cm.H
        W == cm.W
        left == Floor(x) - s.collision_map_x
        top == Floor(y) - s.collision_map_y
        right == Ceil(x + Px(s.width)) - s.collision_map_x
        bottom == Ceil(y + Px(s.height)) - s.collision_map_y - ignore_rows
    IN  IF right <= 0 \/ bottom <= 0 \/ left >= W \/ top >= H THEN FALSE
        ELSE
        LET left_c == Max(0, left)
            top_c == Max(0, top)
            right_c == Min(W, right)
            bottom_c == Min(H, bottom)
        IN  IF bottom_c <= top_c THEN FALSE
            ELSE RegionAny(cm, top_c, bottom_c, left_c, right_c)

\* ------------------------------------------------------------------ physics helpers

\* a full-step probe that ignores the bottom rows, as the stepwise probes do
can_move_horizontal_tolerant(s, dx) ==
    IF s.collision_map = None THEN TRUE
    ELSE ~_aabb_collides_ignore_bottom(s, s.pos[1] + dx, s.pos[2], IgnoreRows)

can_move_horizontal(s, dx) ==
    IF s.collision_map = None THEN TRUE
    ELSE ~_aabb_collides(s, s.pos[1] + dx, s.pos[2])

\* reads self.pos, which _move_and_collide stores only at its end
can_move_vertical(s, dy) ==
    IF s.collision_map = None THEN TRUE
    ELSE ~_aabb_collides(s, s.pos[1], s.pos[2] + dy)

\* an is_on_ground that takes the bottom of the screen for ground
is_on_ground_or_bottom(s) ==
    \/ s.pos[2] = Px(ScreenHeight - s.height)
    \/ s.collision_map # None /\ _aabb_collides(s, s.pos[1], s.pos[2] + Px(1))

is_on_ground(s) ==
    IF s.collision_map = None THEN FALSE
    ELSE _aabb_collides(s, s.pos[1], s.pos[2] + Px(1))

\* gravity without the clamp to max_fall_speed
apply_gravity_unclamped(s) ==
    IF s.is_flying THEN s
    ELSE [s EXCEPT !.vel = << s.vel[1], s.vel[2] + (s.gravity \div TARGET_FPS) >>]

\* gravity * dt in px/s: dt = 1/TARGET_FPS
apply_gravity(s) ==
    IF s.is_flying THEN s
    ELSE LET vy == s.vel[2] + (s.gravity \div TARGET_FPS)
         IN  [s EXCEPT !.vel = << s.vel[1], IF vy > s.max_fall_speed THEN s.max_fall_speed ELSE vy >>]

\* a jump impulse applied without asking whether the entity stands on ground
try_jump_airborne(s) ==
    IF s.is_flying THEN [s EXCEPT !.vel = << s.vel[1], -s.speed >>]
    ELSE [s EXCEPT !.vel = << s.vel[1], -s.jump_velocity >>]

try_jump(s) ==
    IF s.is_flying THEN [s EXCEPT !.vel = << s.vel[1], -s.speed >>]
    ELSE IF is_on_ground(s) THEN [s EXCEPT !.vel = << s.vel[1], -s.jump_velocity >>]
    ELSE s

\* the while loop of _resolve_horizontal, from cur; step is +1 or -1 (pixels)
RECURSIVE resolve_horizontal_loop(_, _, _, _, _)
resolve_horizontal_loop(s, cur, y, target, step) ==
    IF (step > 0 /\ cur < target) \/ (step < 0 /\ cur > target)
    THEN LET nxt == cur + Px(step)
         IN  IF _aabb_collides_ignore_bottom(s, nxt, y, IgnoreRows) THEN cur
             ELSE resolve_horizontal_loop(s, nxt, y, target, step)
    ELSE cur

\* a resolver that returns the blocked step itself instead of the last free one
RECURSIVE resolve_horizontal_loop_into(_, _, _, _, _)
resolve_horizontal_loop_into(s, cur, y, target, step) ==
    IF (step > 0 /\ cur < target) \/ (step < 0 /\ cur > target)
    THEN LET nxt == cur + Px(step)
         IN  IF _aabb_collides_ignore_bottom(s, nxt, y, IgnoreRows) THEN nxt
             ELSE resolve_horizontal_loop_into(s, nxt, y, target, step)
    ELSE cur

_resolve_horizontal_into(s, x, y, dx) ==
    resolve_horizontal_loop_into(s, x, y, x + dx, IF dx > 0 THEN 1 ELSE -1)

_resolve_horizontal(s, x, y, dx) ==
    resolve_horizontal_loop(s, x, y, x + dx, IF dx > 0 THEN 1 ELSE -1)

RECURSIVE resolve_vertical_loop(_, _, _, _, _)
resolve_vertical_loop(s, x, cur, target, step) ==
    IF (step > 0 /\ cur < target) \/ (step < 0 /\ cur > target)
    THEN LET nxt == cur + Px(step)
         IN  IF _aabb_collides(s, x, nxt) THEN cur
             ELSE resolve_vertical_loop(s, x, nxt, target, step)
    ELSE cur

_resolve_vertical(s, x, y, dy) ==
    resolve_vertical_loop(s, x, y, y + dy, IF dy > 0 THEN 1 ELSE -1)

\* ------------------------------------------------------------------ movement core

\* the horizontal half of _move_and_collide: << x, vx >> after it
move_horizontal(s) ==
    LET x == s.pos[1]
        y == s.pos[2]
        vx == s.vel[1]
        dx == vx
    IN  IF dx # 0
        THEN IF can_move_horizontal(s, dx) THEN << x + dx, vx >>
             ELSE << _resolve_horizontal(s, x, y, dx), 0 >>
        ELSE << x, vx >>

\* a vertical half that treats every vertical move as blocked
move_vertical_blocked(s, x) == << s.pos[2], 0 >>

\* the vertical half of _move_and_collide, from the local x: << y, vy >> after it
move_vertical(s, x) ==
    LET y == s.pos[2]
        vy == s.vel[2]
        dy == vy
    IN  IF dy # 0
        THEN IF can_move_vertical(s, dy) THEN << y + dy, vy >>
             ELSE << _resolve_vertical(s, x, y, dy), 0 >>
        ELSE << y, vy >>

clamp_to_screen_missing(s, x, y, vx, vy) ==
    [s EXCEPT !.pos = << x, y >>, !.vel = << vx, vy >>]

\* a clamp that keeps the velocity when a bound is hit
clamp_to_screen_keeps_velocity(s, x, y, vx, vy) ==
    [s EXCEPT !.pos = << Max(0, Min(Px(ScreenWidth - s.width), x)),
                         Max(0, Min(Px(ScreenHeight - s.height), y)) >>,
              !.vel = << vx, vy >>]

clamp_to_screen(s, x, y, vx, vy) ==
    LET cx == Max(0, Min(Px(ScreenWidth - s.width), x))
        cy == Max(0, Min(Px(ScreenHeight - s.height), y))
    IN  [s EXCEPT !.pos = << cx, cy >>,
                  !.vel = << IF cx = 0 \/ cx = Px(ScreenWidth - s.width) THEN 0 ELSE vx,
                             IF cy = 0 \/ cy = Px(ScreenHeight - s.height) THEN 0 ELSE vy >>]

_move_and_collide(s) ==
    LET h == move_horizontal(s)
        v == move_vertical(s, h[1])
    IN  clamp_to_screen(s, h[1], v[1], h[2], v[2])

\* ------------------------------------------------------------------ actions of the entity

\* mouse is << mouse_x, mouse_y >> in whole pixels
teleport_to_mouse(s, mouse) ==
    LET new_x == Max(0, Min(ScreenWidth - s.width, mouse[1] - TeleportOffset - s.width))
        new_y == Max(0, Min(ScreenHeight - s.height, mouse[2] - (s.height \div 2)))
    IN  [s EXCEPT !.pos = << Px(new_x), Px(new_y) >>, !.vel = << 0, 0 >>]

\* a punch that also releases the movement keys
punch_releases_intent(s) ==
    [s EXCEPT !.is_punching = TRUE, !._punch_timer = PunchDuration,
              !.is_moving_left = FALSE, !.is_moving_right = FALSE]

punch(s) ==
    [s EXCEPT !.is_punching = TRUE, !._punch_timer = PunchDuration]

\* blast_sound.play() hands back the channel the blast plays on
kamehameha(s) ==
    LET x == s.pos[1]
        y == s.pos[2]
        center_y == Trunc(y + Px((s.height \div 2) - BlastHalfHeight))
        blast_x == IF s.facing_right THEN Trunc(x + Px(s.width))
                   ELSE Trunc(x - Px(BlastLength))
    IN  [s EXCEPT !.is_kamehameha = TRUE,
                  !._kamehameha_timer = KamehamehaDuration,
                  !._blast_pos = Some(<< blast_x, center_y >>),
                  !._blast_facing_right = s.facing_right,
                  !._blast_sound_channel = Some("blast")]

on_blast_end(s) ==
    [s EXCEPT !.damage_rects = Append(@, s._blast_pos[1])]

\* a trigger that can only switch flying on
fly_on_only(s) == [s EXCEPT !.is_flying = TRUE]

fly(s) ==
    IF ~s.is_flying THEN [s EXCEPT !.is_flying = TRUE]
    ELSE [s EXCEPT !.is_flying = FALSE, !._aura_sound_channel = None]

\* the 'd' key: flying off, aura stopped
fly_off(s) ==
    [s EXCEPT !.is_flying = FALSE, !._aura_sound_channel = None]

\* ------------------------------------------------------------------ animation

\* the sprite of a three-frame cycle at animation_frame % 30
Frames(frame, a, b, c) ==
    IF frame % AnimationPeriod < 10 THEN a
    ELSE IF frame % AnimationPeriod < 20 THEN b
    ELSE c

\* the sprite chosen by animate; animation_frame is kept modulo 30, the only
\* way the code reads it
SelectSprite(s) ==
    LET f == s.animation_frame
    IN  IF s.is_kamehameha
        THEN Frames(f, "stickman_blask1", "stickman_blask2", "stickman_blask3")
        ELSE IF s.is_flying
        THEN IF s.is_punching
             THEN IF s.punch_direction = "up"
                  THEN Frames(f, "stickman_fly_hit_up1", "stickman_fly_hit_up2", "stickman_fly_hit_up3")
                  ELSE IF s.punch_direction = "down"
                  THEN Frames(f, "stickman_fly_hit_down1", "stickman_fly_hit_down2", "stickman_fly_hit_down3")
                  ELSE Frames(f, "stickman_fly_hit1", "stickman_fly_hit2", "stickman_fly_hit3")
             ELSE Frames(f, "sprite_fly_idle1", "sprite_fly_idle2", "sprite_fly_idle3")
        ELSE IF s.is_punching
        THEN IF s.punch_direction = "up"
             THEN Frames(f, "stickman_punch_up1", "stickman_punch_up2", "stickman_punch_up3")
             ELSE IF s.punch_direction = "down"
             THEN Frames(f, "stickman_punch_down1", "stickman_punch_down2", "stickman_punch_down3")
             ELSE Frames(f, "stickman_punch1", "stickman_punch2", "stickman_punch3")
        ELSE IF s.wants_jump
        THEN Frames(f, "stickman_jump1", "stickman_jump2", "stickman_jump3")
        ELSE IF s.is_moving_left \/ s.is_moving_right
        THEN Frames(f, "stickman_run1", "stickman_run2", "stickman_run3")
        ELSE "stickman_idle"

\* animate with the punching branch tested before the flying branch
SelectSpritePunchFirst(s) ==
    IF s.is_punching /\ ~s.is_kamehameha
    THEN SelectSprite([s EXCEPT !.is_flying = FALSE])
    ELSE SelectSprite(s)

animate_punch_first(s) ==
    [s EXCEPT !.sprite_url = SelectSpritePunchFirst(s),
              !.animation_frame = (@ + AnimationStep) % AnimationPeriod]

animate(s) ==
    [s EXCEPT !.sprite_url = SelectSprite(s),
              !.animation_frame = (@ + AnimationStep) % AnimationPeriod]

\* ------------------------------------------------------------------ collision-map provider

\* get_collision_map(stickman) of screen_read.py.  scr is the set of desktop
\* pixels << row, col >> that image_to_bool_mask classifies as obstacle.
get_collision_map(s, scr) ==
    LET x == s.pos[1]
        y == s.pos[2]
        left == Trunc(Max(0, x - Px(CapturePadding)))
        top == Trunc(Max(0, y - Px(CapturePadding)))
        right == Trunc(Min(Px(ScreenWidth), x + Px(s.width) + Px(CapturePadding)))
        bottom == Trunc(Min(Px(ScreenHeight), y + Px(s.height) + Px(CapturePadding)))
        width == right - left
        height == bottom - top
        collision_mask == { << c[1] - top, c[2] - left >> :
                              c \in { p \in scr : /\ top <= p[1] /\ p[1] < bottom
                                                  /\ left <= p[2] /\ p[2] < right } }
        stickman_local_x == Trunc(x - Px(left))
        stickman_local_y == Trunc(y - Px(top))
        stickman_left == Max(0, stickman_local_x)
        stickman_top == Max(0, stickman_local_y)
        stickman_right == Min(width, stickman_local_x + s.width)
        stickman_bottom == Min(height, stickman_local_y + s.height)
        cleared == IF stickman_right > stickman_left /\ stickman_bottom > stickman_top
                   THEN { c \in collision_mask :
                            ~(/\ stickman_top <= c[1] /\ c[1] < stickman_bottom
                              /\ stickman_left <= c[2] /\ c[2] < stickman_right) }
                   ELSE collision_mask
    IN  [s EXCEPT !.collision_map_x = left,
                  !.collision_map_y = top,
                  !.collision_map = Some([H |-> height, W |-> width, cells |-> cleared])]

update_collision_map(s, scr) ==
    IF s.collision_map_provider # None THEN get_collision_map(s, scr) ELSE s

\* ------------------------------------------------------------------ update, section by section

\* a refresh that runs in every tick
update_refresh_every_tick(s, scr) ==
    update_collision_map([s EXCEPT !._collision_accum = (@ + 1) % COLLISION_MAP_DT], scr)

\* lines 438-443: the collision accumulator and the inline refresh
update_refresh(s, scr) ==
    LET accum == s._collision_accum + 1
    IN  IF accum > COLLISION_MAP_DT
        THEN update_collision_map([s EXCEPT !._collision_accum = accum % COLLISION_MAP_DT], scr)
        ELSE [s EXCEPT !._collision_accum = accum]

\* lines 445-449: whether this tick starts a colour-sampling thread
starts_color_sample(s) == s._color_sample_accum + 1 >= COLOR_SAMPLE_DT

update_color_accum(s) ==
    [s EXCEPT !._color_sample_accum = (@ + 1) % COLOR_SAMPLE_DT]

\* lines 454-457
update_jump(s) ==
    IF s.wants_jump THEN [try_jump(s) EXCEPT !.wants_jump = FALSE] ELSE s

\* an intent block in which the right key wins when both keys are held
update_intent_right_wins(s) ==
    LET left_only == s.is_moving_left /\ ~s.is_moving_right
        desired_vx == IF left_only THEN -s.speed ELSE IF s.is_moving_right THEN s.speed ELSE 0
        desired_vy == IF s.is_flying
                      THEN IF s.punch_direction = "down" THEN s.speed
                           ELSE IF s.punch_direction = "up" THEN -s.speed
                           ELSE 0
                      ELSE s.vel[2]
    IN  [s EXCEPT !.vel = << desired_vx, desired_vy >>,
                  !.facing_right = IF left_only THEN FALSE
                                   ELSE IF s.is_moving_right THEN TRUE ELSE @]

\* lines 459-484
update_intent(s) ==
    LET left_only == s.is_moving_left /\ ~s.is_moving_right
        right_only == s.is_moving_right /\ ~s.is_moving_left
        desired_vx == IF left_only THEN -s.speed ELSE IF right_only THEN s.speed ELSE 0
        desired_vy == IF s.is_flying
                      THEN IF s.punch_direction = "down" THEN s.speed
                           ELSE IF s.punch_direction = "up" THEN -s.speed
                           ELSE 0
                      ELSE s.vel[2]
    IN  [s EXCEPT !.vel = << desired_vx, desired_vy >>,
                  !.facing_right = IF left_only THEN FALSE ELSE IF right_only THEN TRUE ELSE @]

\* lines 486-509; aura_busy is what _aura_sound_channel.get_busy() answers
plays_aura(s, aura_busy) ==
    s.is_flying /\ (s._aura_sound_channel = None \/ ~aura_busy)

update_sounds(s, aura_busy) ==
    IF s.is_flying
    THEN [s EXCEPT !._aura_sound_channel = IF plays_aura(s, aura_busy) THEN Some("aura") ELSE @,
                   !._walk_sound_counter = 0,
                   !._flying_sound_counter = 0]
    ELSE IF (s.is_moving_left \/ s.is_moving_right) /\ is_on_ground(s)
    THEN [s EXCEPT !._walk_sound_counter = IF @ + 1 >= 15 THEN 0 ELSE @ + 1,
                   !._flying_sound_counter = 0]
    ELSE [s EXCEPT !._walk_sound_counter = 0, !._flying_sound_counter = 0]

\* a punch timer that runs out without clearing is_punching
update_punch_timer_keeps_flag(s) ==
    IF s._punch_timer > 0 THEN [s EXCEPT !._punch_timer = @ - 1] ELSE s

\* lines 514-519
update_punch_timer(s) ==
    IF s._punch_timer > 0
    THEN LET timer == s._punch_timer - 1
         IN  IF timer <= 0 THEN [s EXCEPT !.is_punching = FALSE, !._punch_timer = 0]
             ELSE [s EXCEPT !._punch_timer = timer]
    ELSE s

\* the deferred effect applied without asking whether the sound still plays
poll_blast_sound_unconditional(s, blast_busy) ==
    IF s._blast_sound_channel # None /\ s._blast_pos # None
    THEN [on_blast_end(s) EXCEPT !._blast_pos = None, !._blast_sound_channel = None]
    ELSE s

\* lines 525-533; blast_busy is what _blast_sound_channel.get_busy() answers
poll_blast_sound(s, blast_busy) ==
    IF s._blast_sound_channel # None /\ ~blast_busy
    THEN IF s._blast_pos # None
         THEN [on_blast_end(s) EXCEPT !._blast_pos = None, !._blast_sound_channel = None]
         ELSE s
    ELSE s

\* a completion gated on the timer and on the sound having finished
update_kamehameha_timer_gated(s, blast_busy) ==
    IF s._kamehameha_timer > 0 \/ s.is_kamehameha
    THEN LET polled == poll_blast_sound([s EXCEPT !._kamehameha_timer = Max(0, @ - 1)], blast_busy)
         IN  IF polled._kamehameha_timer <= 0 /\ ~blast_busy
             THEN [polled EXCEPT !.is_kamehameha = FALSE,
                                 !._kamehameha_timer = 0,
                                 !._blast_pos = None]
             ELSE polled
    ELSE s

\* lines 521-538
update_kamehameha_timer(s, blast_busy) ==
    IF s._kamehameha_timer > 0
    THEN LET polled == poll_blast_sound([s EXCEPT !._kamehameha_timer = @ - 1], blast_busy)
         IN  IF polled._kamehameha_timer <= 0
             THEN [polled EXCEPT !.is_kamehameha = FALSE,
                                 !._kamehameha_timer = 0,
                                 !._blast_pos = None]
             ELSE polled
    ELSE s

\* a flag that is acted on and left set
reset_hame_flag_skipped(s) == s

\* line 543
reset_hame_flag(s) == [s EXCEPT !._hame_detected = FALSE]

\* line 547
reset_loud_flag(s) == [s EXCEPT !._loud_sound_detected = FALSE]

\* lines 540-547
update_voice_flags(s) ==
    LET hame == IF s._hame_detected THEN reset_hame_flag(kamehameha(s)) ELSE s
    IN  IF hame._loud_sound_detected THEN reset_loud_flag(fly(hame)) ELSE hame

\* the entity right before _move_and_collide (lines 438-509)
before_move(s, scr, aura_busy) ==
    update_sounds(update_intent(update_jump(apply_gravity(
        update_color_accum(update_refresh(s, scr))))), aura_busy)

\* the entity when the tick reaches the voice flags (lines 511-538)
to_voice_flags(s, blast_busy) ==
    update_kamehameha_timer(update_punch_timer(_move_and_collide(s)), blast_busy)

\* the entity after the rest of the tick (lines 511-549)
after_move(s, blast_busy) ==
    animate(update_voice_flags(update_kamehameha_timer(update_punch_timer(
        _move_and_collide(s)), blast_busy)))

update(s, scr, blast_busy, aura_busy) ==
    after_move(before_move(s, scr, aura_busy), blast_busy)

\* screen_read.get_collision_map when screenshot_to_numpy raises: the origin
\* of the new region is already stored in the entity (lines 319-336)
get_collision_map_raises(s) ==
    [s EXCEPT !.collision_map_x = Trunc(Max(0, s.pos[1] - Px(CapturePadding))),
              !.collision_map_y = Trunc(Max(0, s.pos[2] - Px(CapturePadding)))]

\* update() left by the exception of the provider (lines 439-443, 557)
update_capture_raises(s) ==
    get_collision_map_raises(
        [s EXCEPT !._collision_accum = (@ + 1) % COLLISION_MAP_DT])

\* whether update() asks the blast channel for its busy-state (lines 522-528),
\* s being the entity before the tick
queries_blast_sound(s) ==
    s._kamehameha_timer > 0 /\ s._blast_sound_channel # None

\* update() left by the exception of get_busy() (lines 438-528)
update_busy_query_raises(s, scr, aura_busy) ==
    [update_punch_timer(_move_and_collide(before_move(s, scr, aura_busy)))
        EXCEPT !._kamehameha_timer = @ - 1]

\* ------------------------------------------------------------------ state

VARIABLES
    stickman,   \* the Stickman object: a record of its fields
    screen,     \* the desktop: the pixels << row, col >> classified as obstacle
    mixer,      \* the audio player: the busy-state of the blast and aura channels
    sampling,   \* a colour-sampling thread started by update_background_color runs
    call,       \* the operation that produced this state, with what it read,
                \* which of its external calls failed and whether it raised
    budget,     \* how many ticks, events, flag settings, flag-caused calls and
                \* colour publications have happened (saturating)
    pc,         \* where the main loop stands: "idle" between two ticks, else the
                \* statement of update() it executes next
    _cached_background_color,   \* the module global of screen_read.py
    desktop_color,              \* the most common colour of the whole desktop now
    keys,       \* the direction keys ("i", "k") that are down on the keyboard
    worker,     \* where the voice worker stands in _voice_detection_loop: at the
                \* "while" test, in the "hame" or the "loud" detection, in the
                \* "sleep", or "done" once the loop has returned
    hook,       \* where the keyboard hook thread stands: "idle" between two key
                \* events, else the statement of the handler it executes next,
                \* with the target the handler has computed
    frame,      \* the locals of the main loop inside update(): x, y, vx, vy of
                \* _move_and_collide and the timer value an in-place subtraction
                \* has loaded
    orphans     \* where the voice workers stand that no _voice_thread refers to
                \* any more

vars == << stickman, screen, mixer, sampling, call, budget, pc,
           _cached_background_color, desktop_color, keys, worker,
           hook, frame, orphans >>

\* the hook thread between two key events, and the main loop outside update()
IdleHook == [at |-> "idle", pos |-> << 0, 0 >>]
NoFrame == [x |-> 0, y |-> 0, vx |-> 0, vy |-> 0, timer |-> 0]

\* bounds of the model
MaxTicks == 2
MaxEvents == 2

\* Stickman(...) with the dataclass defaults, after __post_init__ has started
\* the keyboard listener and the voice worker
DefaultStickman ==
    [ damage_rects |-> << >>,
      pos |-> << Px(1000), Px(200) >>,
      width |-> DefaultWidth,
      height |-> DefaultHeight,
      collision_map |-> None,
      collision_map_x |-> 0,
      collision_map_y |-> 0,
      sprite_url |-> "stickman_idle",
      animation_frame |-> 0,
      is_moving_left |-> FALSE,
      is_moving_right |-> FALSE,
      wants_jump |-> FALSE,
      is_flying |-> FALSE,
      facing_right |-> TRUE,
      is_punching |-> FALSE,
      is_kamehameha |-> FALSE,
      punch_direction |-> "horizontal",
      _punch_timer |-> 0,
      _kamehameha_timer |-> 0,
      _blast_pos |-> None,
      _blast_facing_right |-> TRUE,
      _blast_sound_channel |-> None,
      _walk_sound_counter |-> 0,
      _flying_sound_counter |-> 0,
      _aura_sound_channel |-> None,
      _voice_thread |-> Some("voice"),
      _is_listening |-> TRUE,
      _hame_detected |-> FALSE,
      _loud_sound_detected |-> FALSE,
      speed |-> DefaultSpeed,
      jump_velocity |-> DefaultJumpVelocity,
      gravity |-> DefaultGravity,
      max_fall_speed |-> DefaultMaxFallSpeed,
      vel |-> << 0, 0 >>,
      collision_map_provider |-> None,
      most_common_col |-> << 128, 128, 128 >>,
      _collision_accum |-> 0,
      _color_sample_accum |-> 0,
      _keyboard_listener |-> Some("keyboard") ]

\* App.stuff_i_understand: Stickman() and then the provider is assigned
AppStickman == [DefaultStickman EXCEPT !.collision_map_provider = Some("get_collision_map")]

Quiet == [blast_busy |-> FALSE, aura_busy |-> FALSE]
NoCall(s) ==
    [op |-> "init", pre |-> s, blast_busy |-> FALSE, arg |-> << >>, ret |-> 0, hit |-> FALSE,
     refreshed |-> FALSE, fault |-> "", raised |-> FALSE]
Fresh ==
    [ticks |-> 0, events |-> 0, hame_sets |-> 0, hame_calls |-> 0,
     loud_sets |-> 0, loud_calls |-> 0, published |-> 0]

\* the colour of the desktop around the entity, (B, G, R): the pixels of
\* screen differ from it beyond the classifier's thresholds
Gray == << 128, 128, 128 >>

\* the rest of a program that has just been constructed
Constructed ==
    /\ mixer = Quiet
    /\ sampling = FALSE
    /\ call = NoCall(stickman)
    /\ budget = Fresh
    /\ pc = "idle"
    /\ _cached_background_color = None
    /\ desktop_color = Gray
    /\ keys = {}
    /\ worker = "while"
    /\ hook = IdleHook
    /\ frame = NoFrame
    /\ orphans = << >>

\* ------------------------------------------------------------------ the main loop's tick

\* the mixer after a tick: the aura loop (re)started or stopped, the blast started
mixer_after_update(s, m) ==
    [ blast_busy |-> IF s._hame_detected THEN TRUE ELSE m.blast_busy,
      aura_busy |-> IF s.is_flying
                    THEN IF s._loud_sound_detected THEN FALSE ELSE TRUE
                    ELSE m.aura_busy ]

\* whether this tick refreshes the collision map through the provider
refreshes(s) ==
    s.collision_map_provider # None /\ s._collision_accum + 1 > COLLISION_MAP_DT

\* get_cached_background_color(): the global after the call, which detects the
\* desktop's most common colour when nothing is cached yet
get_cached_background_color(cached, desktop) ==
    IF cached = None THEN Some(desktop) ELSE cached

\* one more call caused by a trigger flag
Counted(n, flag) == IF flag THEN Min(n + 1, MaxEvents + 1) ELSE n

\* Stickman.update(), called by App.update_game with dt = DT
Tick ==
    /\ pc = "idle"
    /\ stickman' = update(stickman, screen, mixer.blast_busy, mixer.aura_busy)
    /\ mixer' = mixer_after_update(stickman, mixer)
    /\ sampling' = (sampling \/ starts_color_sample(stickman))
    /\ _cached_background_color' =
          IF refreshes(stickman)
          THEN get_cached_background_color(_cached_background_color, desktop_color)
          ELSE _cached_background_color
    /\ call' = [op |-> "update", pre |-> before_move(stickman, screen, mixer.aura_busy),
                blast_busy |-> mixer.blast_busy, arg |-> << >>, ret |-> 0, hit |-> FALSE,
                refreshed |-> refreshes(stickman), fault |-> "", raised |-> FALSE]
    /\ budget' = [budget EXCEPT !.ticks = Min(@ + 1, MaxTicks),
                                !.hame_calls = Counted(@, stickman._hame_detected),
                                !.loud_calls = Counted(@, stickman._loud_sound_detected)]
    /\ UNCHANGED << screen, pc, desktop_color, keys, worker, hook, frame, orphans >>

BoundedTick ==
    /\ budget.ticks < MaxTicks
    /\ Tick

\* ------------------------------------------------------------------ the keyboard hook thread

\* a hook event h, within the event budget: the entity after it, the mixer
\* after it and the direction keys that are down after it
HookKey(after, m, down) ==
    /\ budget.events < MaxEvents
    /\ stickman' = after
    /\ mixer' = m
    /\ keys' = down
    /\ call' = [NoCall(after) EXCEPT !.op = "hook"]
    /\ budget' = [budget EXCEPT !.events = @ + 1]
    /\ UNCHANGED << screen, sampling, pc, _cached_background_color, desktop_color, worker,
                    hook, frame, orphans >>

\* a hook event for a key other than the direction keys
Hook(after, m) == HookKey(after, m, keys)

\* where the mouse may be when 'a' is pressed
MousePositions ==
    { << 0, 0 >>, << 1919, 1199 >>, << 1071, 215 >>, << 1071, 1199 >> }

PressJ == Hook([stickman EXCEPT !.is_moving_left = TRUE], mixer)
PressL == Hook([stickman EXCEPT !.is_moving_right = TRUE], mixer)
PressI ==
    HookKey([stickman EXCEPT !.wants_jump = TRUE, !.punch_direction = "up"], mixer,
            keys \cup {"i"})
PressA == \E mouse \in MousePositions : Hook(teleport_to_mouse(stickman, mouse), mixer)
PressS == Hook(punch(stickman), mixer)
PressK == HookKey([stickman EXCEPT !.punch_direction = "down"], mixer, keys \cup {"k"})
PressE == Hook(fly(stickman), [mixer EXCEPT !.aura_busy = IF stickman.is_flying THEN FALSE ELSE @])
PressD == Hook(fly_off(stickman), [mixer EXCEPT !.aura_busy = FALSE])
PressR == Hook(kamehameha(stickman), [mixer EXCEPT !.blast_busy = TRUE])
ReleaseJ == Hook([stickman EXCEPT !.is_moving_left = FALSE], mixer)
ReleaseL == Hook([stickman EXCEPT !.is_moving_right = FALSE], mixer)
\* 'k' or 'i', whichever is down, goes up
ReleaseKI ==
    \E char \in keys :
        HookKey([stickman EXCEPT !.punch_direction = "horizontal"], mixer, keys \ {char})

\* ------------------------------------------------------------------ the voice worker and the audio player

\* _voice_detection_loop: detect_word_hame / detect_loud_sound answered True.
\* The worker runs beside the main loop, wherever that stands.
VoiceSets(after, counted) ==
    /\ stickman._is_listening
    /\ budget.events < MaxEvents
    /\ stickman' = after
    /\ call' = [NoCall(after) EXCEPT !.op = "voice"]
    /\ budget' = [counted EXCEPT !.events = @ + 1]
    /\ UNCHANGED << screen, mixer, sampling, pc, _cached_background_color, desktop_color, keys, worker,
                    hook, frame, orphans >>

VoiceHame ==
    VoiceSets([stickman EXCEPT !._hame_detected = TRUE],
              [budget EXCEPT !.hame_sets = @ + 1])

VoiceLoud ==
    VoiceSets([stickman EXCEPT !._loud_sound_detected = TRUE],
              [budget EXCEPT !.loud_sets = @ + 1])

\* the blast sound plays to its end
BlastSoundEnds ==
    /\ mixer.blast_busy
    /\ mixer' = [mixer EXCEPT !.blast_busy = FALSE]
    /\ call' = [NoCall(stickman) EXCEPT !.op = "sound"]
    /\ UNCHANGED << stickman, screen, sampling, budget, pc,
                    _cached_background_color, desktop_color, keys, worker,
                    hook, frame, orphans >>

\* the aura sound plays to its end
AuraSoundEnds ==
    /\ mixer.aura_busy
    /\ mixer' = [mixer EXCEPT !.aura_busy = FALSE]
    /\ call' = [NoCall(stickman) EXCEPT !.op = "sound"]
    /\ UNCHANGED << stickman, screen, sampling, budget, pc,
                    _cached_background_color, desktop_color, keys, worker,
                    hook, frame, orphans >>

\* ------------------------------------------------------------------ the running program

\* obstacle pixels << row, col >> around the default position (1000, 200):
\* a pixel under the path to the right, a pixel in the bottom rows to the
\* right, a pixel at mid height to the right, and a floor below
PixelBelowRight == << 230, 1023 >>
PixelLowRight == << 227, 1022 >>
PixelMidRight == << 210, 1023 >>
Floor1 == { << 231, c >> : c \in 995 .. 1030 }
Desktops ==
    { {}, {PixelBelowRight}, {PixelLowRight}, {PixelMidRight}, Floor1,
      Floor1 \cup {PixelLowRight} }

\* n ticks of the main loop with nothing playing (the membership test is
\* always true: it makes the evaluation of each tick strict)
RECURSIVE QuietTicks(_, _, _)
QuietTicks(s, scr, n) ==
    LET next == update(s, scr, FALSE, FALSE)
    IN  IF n = 0 THEN s
        ELSE IF next \in {next} THEN QuietTicks(next, scr, n - 1) ELSE s

\* the entity when the ticks under study start: constructed by the App, run
\* for no tick or for as many ticks as leave the next one to refresh the
\* collision map, and then teleported ('a') next to the mouse
StartMice == { << 1071, 215 >>, << 1071, 216 >> }
StartAccums == { 0, COLLISION_MAP_DT }

Init ==
    /\ \E mouse \in StartMice, a \in StartAccums :
          stickman = teleport_to_mouse(QuietTicks(AppStickman, {}, a), mouse)
    /\ screen \in Desktops
    /\ Constructed

Next ==
    \/ BoundedTick
    \/ PressJ \/ PressL \/ PressI \/ PressA \/ PressS \/ PressK
    \/ PressE \/ PressD \/ PressR
    \/ ReleaseJ \/ ReleaseL \/ ReleaseKI
    \/ VoiceHame \/ VoiceLoud
    \/ BlastSoundEnds \/ AuraSoundEnds

Spec == Init /\ [][Next]_vars

\* ------------------------------------------------------------------ properties of the tick

XMax(s) == Px(ScreenWidth - s.width)
YMax(s) == Px(ScreenHeight - s.height)
Abs(v) == IF v >= 0 THEN v ELSE -v
Sign(v) == IF v > 0 THEN 1 ELSE -1

\* C1: after every update tick the stored position satisfies
\* 0 <= x <= 1920 - width and 0 <= y <= 1200 - height.
C1_PositionInBounds ==
    call.op = "update" =>
        /\ 0 <= stickman.pos[1] /\ stickman.pos[1] <= XMax(stickman)
        /\ 0 <= stickman.pos[2] /\ stickman.pos[2] <= YMax(stickman)

\* a tick whose resolved y lay below the bottom bound and was clamped to it
C1_Witness ==
    /\ call.op = "update"
    /\ move_vertical(call.pre, move_horizontal(call.pre)[1])[1] > YMax(stickman)
    /\ stickman.pos[2] = YMax(stickman)

\* C5 (as claimed): the full-step vertical probe of a tick answers as a probe
\* at the x produced by that tick's horizontal resolution.
C5_VerticalProbeAtResolvedX ==
    call.op = "update" =>
        LET p == call.pre
            hx == move_horizontal(p)[1]
            dy == p.vel[2]
        IN  (dy # 0 /\ p.collision_map # None) =>
                (can_move_vertical(p, dy) <=> ~_aabb_collides(p, hx, p.pos[2] + dy))

\* the whole-pixel steps of a horizontal resolution of dx from x
StepTargets(x, dx) == { x + Px(k * Sign(dx)) : k \in 1 .. Ceil(Abs(dx)) }

\* C6 (as claimed): when the probe that ignores the bottom 5 rows is free at the
\* full-step target, the full step is taken and the horizontal velocity is kept.
C6_BottomRowsNeverBlock ==
    call.op = "update" =>
        LET p == call.pre
            x == p.pos[1]
            dx == p.vel[1]
        IN  (dx # 0 /\ ~_aabb_collides_ignore_bottom(p, x + dx, p.pos[2], IgnoreRows)) =>
                /\ stickman.pos[1] = Max(0, Min(XMax(p), x + dx))
                /\ stickman.vel[1] = dx \/ stickman.pos[1] \in {0, XMax(p)}

\* the case of C6: the strict full-step probe collides, no stepwise probe does
C6_OnlyBottomRows(p) ==
    /\ p.vel[1] # 0
    /\ _aabb_collides(p, p.pos[1] + p.vel[1], p.pos[2])
    /\ \A nxt \in StepTargets(p.pos[1], p.vel[1]) :
          ~_aabb_collides_ignore_bottom(p, nxt, p.pos[2], IgnoreRows)

\* C6 (amended): only the stepwise probes ignore the bottom 5 rows; the
\* full-step probe is strict.  Obstacle cells only in the bottom rows do not stop
\* the stepwise resolution, which advances in whole pixels until it reaches or
\* passes x + dx, but the tick's stored horizontal velocity is zeroed.
C6_BottomRowsPassedStepwise ==
    call.op = "update" =>
        LET p == call.pre
            x == p.pos[1]
            dx == p.vel[1]
        IN  /\ C6_OnlyBottomRows(p) =>
                /\ stickman.pos[1] = Max(0, Min(XMax(p), x + Px(Ceil(Abs(dx)) * Sign(dx))))
                /\ stickman.vel[1] = 0
            /\ (dx # 0 /\ ~_aabb_collides(p, x + dx, p.pos[2])) =>
                /\ stickman.pos[1] = Max(0, Min(XMax(p), x + dx))

C6_Witness ==
    /\ call.op = "update"
    /\ C6_OnlyBottomRows(call.pre)
    /\ stickman.pos[1] = call.pre.pos[1] + Px(Ceil(Abs(call.pre.vel[1])))

\* C15 (as claimed): a tick, which is where the external trigger is consumed,
\* never turns Flying off, and turns it on only by consuming the trigger.
C15_TriggerNeverEndsFlying ==
    (call.op = "update") =>
        /\ call.pre.is_flying => stickman.is_flying
        /\ (~call.pre.is_flying /\ stickman.is_flying) => call.pre._loud_sound_detected

\* C15 (amended): the external trigger toggles: a tick that consumes the
\* loud-sound flag enters Flying when it was inactive and leaves it when it
\* was active; a tick without the flag leaves Flying as it was.
C15_TriggerTogglesFlying ==
    (call.op = "update") =>
        (stickman.is_flying <=> (call.pre.is_flying # call.pre._loud_sound_detected))

\* Flying was active, the loud-sound flag was set, and the tick left Flying
C15_Witness ==
    /\ call.op = "update"
    /\ call.pre.is_flying
    /\ call.pre._loud_sound_detected
    /\ ~stickman.is_flying
    /\ ~stickman._loud_sound_detected

\* ------------------------------------------------------------------ walking into a wall

\* Stickman(pos=(x, y), is_moving_right=True, collision_map=m): a map of the
\* whole screen whose only obstacle is a one-pixel-wide, full-height column
\* starting at x + width + 1; no provider, so the map stays fixed
WallColumn(x) == Floor(x) + DefaultWidth + 1
WallMap(x) ==
    [H |-> ScreenHeight, W |-> ScreenWidth,
     cells |-> { << r, WallColumn(x) >> : r \in 0 .. ScreenHeight - 1 }]
WallStarts == { << Px(1000), Px(200) >>, << Px(300), Px(1100) >> }

InitWall ==
    /\ \E p \in WallStarts :
          stickman = [DefaultStickman EXCEPT !.pos = p, !.is_moving_right = TRUE,
                                             !.collision_map = Some(WallMap(p[1]))]
    /\ screen = {}
    /\ Constructed

\* the colours that may be the most common one of the desktop
DesktopColors == { << 128, 128, 128 >>, << 255, 255, 255 >> }

\* sample_color of update_background_color: a sampling thread publishes the
\* most common colour of its screenshot; others may still run
SampleColorDone ==
    /\ sampling
    /\ stickman' = [stickman EXCEPT !.most_common_col = desktop_color]
    /\ sampling' \in BOOLEAN
    /\ call' = [NoCall(stickman') EXCEPT !.op = "sampler"]
    /\ budget' = [budget EXCEPT !.published = 1]
    /\ UNCHANGED << screen, mixer, pc, _cached_background_color, desktop_color, keys, worker,
                    hook, frame, orphans >>

NextWall == Tick \/ SampleColorDone

SpecWall == InitWall /\ [][NextWall]_vars

\* the column of the wall in the fixed map
WallOf(s) == CHOOSE col \in { c[2] : c \in s.collision_map[1].cells } : TRUE

\* C4: walking right into a one-pixel-wide full-height column that starts at
\* x + width + 1, every tick ends with horizontal velocity 0 and the entity
\* exactly adjacent to the column (x + width = the column), and the AABB never
\* overlaps an obstacle cell.
C4_HaltsAdjacentToWall ==
    /\ ~_aabb_collides(stickman, stickman.pos[1], stickman.pos[2])
    /\ call.op = "update" =>
          /\ stickman.vel[1] = 0
          /\ stickman.pos[1] + Px(stickman.width) = Px(WallOf(stickman))

\* a tick that was blocked by the wall and resolved stepwise, one pixel further
C4_Witness ==
    /\ call.op = "update"
    /\ budget.ticks >= 1
    /\ ~can_move_horizontal(call.pre, call.pre.vel[1])
    /\ stickman.pos[1] + Px(stickman.width) = Px(WallOf(stickman))
    /\ stickman.vel[1] = 0

\* ------------------------------------------------------------------ choosing the sprite

AnimationFrames == { k * AnimationStep : k \in 0 .. (AnimationPeriod \div AnimationStep) - 1 }

InitAnimate ==
    /\ \E k, f, p, j, l, r \in BOOLEAN, d \in {"horizontal", "up", "down"}, a \in AnimationFrames :
          stickman = [DefaultStickman EXCEPT !.is_kamehameha = k, !.is_flying = f,
                                             !.is_punching = p, !.wants_jump = j,
                                             !.is_moving_left = l, !.is_moving_right = r,
                                             !.punch_direction = d, !.animation_frame = a]
    /\ screen = {}
    /\ Constructed

Animate ==
    /\ call.op = "init"
    /\ stickman' = animate(stickman)
    /\ call' = [NoCall(stickman) EXCEPT !.op = "animate"]
    /\ UNCHANGED << screen, mixer, sampling, budget, pc,
                    _cached_background_color, desktop_color, keys, worker,
                    hook, frame, orphans >>

SpecAnimate == InitAnimate /\ [][Animate]_vars

\* the sprite keys of each Action State
SpritesOf(state) ==
    CASE state = "Channeling" -> {"stickman_blask1", "stickman_blask2", "stickman_blask3"}
      [] state = "Flying" ->
            {"stickman_fly_hit_up1", "stickman_fly_hit_up2", "stickman_fly_hit_up3",
             "stickman_fly_hit_down1", "stickman_fly_hit_down2", "stickman_fly_hit_down3",
             "stickman_fly_hit1", "stickman_fly_hit2", "stickman_fly_hit3",
             "sprite_fly_idle1", "sprite_fly_idle2", "sprite_fly_idle3"}
      [] state = "Punching" ->
            {"stickman_punch_up1", "stickman_punch_up2", "stickman_punch_up3",
             "stickman_punch_down1", "stickman_punch_down2", "stickman_punch_down3",
             "stickman_punch1", "stickman_punch2", "stickman_punch3"}
      [] state = "Jumping" -> {"stickman_jump1", "stickman_jump2", "stickman_jump3"}
      [] state = "Moving" -> {"stickman_run1", "stickman_run2", "stickman_run3"}
      [] state = "Idle" -> {"stickman_idle"}

ActionStates == {"Channeling", "Flying", "Punching", "Jumping", "Moving", "Idle"}

\* the highest-priority condition that is true:
\* Channeling > Flying > Punching > Jumping > Moving > Idle
HighestPriority(s) ==
    IF s.is_kamehameha THEN "Channeling"
    ELSE IF s.is_flying THEN "Flying"
    ELSE IF s.is_punching THEN "Punching"
    ELSE IF s.wants_jump THEN "Jumping"
    ELSE IF s.is_moving_left \/ s.is_moving_right THEN "Moving"
    ELSE "Idle"

\* C2: for every combination of conditions animate selects a sprite key of
\* exactly one Action State, the highest-priority true condition.
C2_SpriteOfHighestPriority ==
    call.op = "animate" =>
        \A state \in ActionStates :
            stickman.sprite_url \in SpritesOf(state) <=> state = HighestPriority(call.pre)

\* Channeling and Punching both true, and a Channeling key selected
C2_Witness ==
    /\ call.op = "animate"
    /\ call.pre.is_kamehameha /\ call.pre.is_punching /\ call.pre.is_flying
    /\ stickman.sprite_url \in SpritesOf("Channeling")

\* ------------------------------------------------------------------ probing a collision map

\* desktops around (1000, 200): nothing; a vertical line right of the entity; a
\* floor below it; a vertical line a few pixels further right; a low pixel; a
\* pixel in the corner of the region captured around (1000, 200)
LineRight == { << r, 1021 >> : r \in 195 .. 235 }
FloorBelow == { << 232, c >> : c \in 990 .. 1040 }
LineFurther == { << r, 1024 >> : r \in 150 .. 260 }
CeilingAbove == { << 196, c >> : c \in 990 .. 1040 }
CornerPixel == << 325, 1118 >>
ProbeDesktops ==
    { {}, LineRight, FloorBelow, LineFurther, CeilingAbove, {PixelLowRight},
      FloorBelow \cup LineFurther, {CornerPixel} }

\* where the map was captured, and where the entity is when it is probed: on
\* whole pixels (after a teleport) and between them (after moving for a tick)
CapturePositions == { << Px(1000), Px(200) >>, << 0, 0 >> }
ProbePositions ==
    { << Px(1000), Px(200) >>, << Px(1000) + 280, Px(200) + 30 >>,
      << Px(1000) + 30, Px(200) >>, << Px(885), Px(85) >>, << Px(1110), Px(320) >>,
      << 0, 0 >> }
ProbeOffsets == { -Px(130), -280, 0, 30, Px(1), 280, Px(125) }
Displacements == { 280, -280, 30, 500, -500, Px(1), Px(2) }

InitProbe ==
    /\ screen \in ProbeDesktops
    /\ \E q \in CapturePositions, p \in ProbePositions, captured \in BOOLEAN :
          stickman = IF captured
                     THEN [get_collision_map([AppStickman EXCEPT !.pos = q], screen)
                              EXCEPT !.pos = p]
                     ELSE [AppStickman EXCEPT !.pos = p]
    /\ mixer = Quiet
    /\ sampling = FALSE
    /\ call = NoCall(stickman)
    /\ budget = Fresh
    /\ pc = "idle"
    /\ _cached_background_color = IF stickman.collision_map = None THEN None ELSE Some(Gray)
    /\ desktop_color = Gray
    /\ keys = {}
    /\ worker = "while"
    /\ hook = IdleHook
    /\ frame = NoFrame
    /\ orphans = << >>

\* a query changes nothing; each is made on a freshly constructed or freshly
\* refreshed entity
Probed(op, arg, ret, hit) ==
    /\ call.op \in {"init", "refresh"}
    /\ call' = [op |-> op, pre |-> stickman, blast_busy |-> FALSE,
                refreshed |-> FALSE, fault |-> "", raised |-> FALSE,
                arg |-> arg, ret |-> ret, hit |-> hit]
    /\ UNCHANGED << stickman, screen, mixer, sampling, budget, pc,
                    _cached_background_color, desktop_color, keys, worker,
                    hook, frame, orphans >>

\* _aabb_collides(x, y)
Collides ==
    \E ox, oy \in ProbeOffsets :
        LET x == stickman.pos[1] + ox
            y == stickman.pos[2] + oy
        IN  Probed("collides", << x, y >>, 0, _aabb_collides(stickman, x, y))

\* _resolve_horizontal(x, y, dx) from the entity's position
ResolveHorizontal ==
    \E dx \in Displacements :
        LET x == stickman.pos[1]
            y == stickman.pos[2]
        IN  Probed("resolve_horizontal", << x, y, dx >>,
                   _resolve_horizontal(stickman, x, y, dx), FALSE)

\* _resolve_vertical(x, y, dy) from the entity's position
ResolveVertical ==
    \E dy \in Displacements :
        LET x == stickman.pos[1]
            y == stickman.pos[2]
        IN  Probed("resolve_vertical", << x, y, dy >>,
                   _resolve_vertical(stickman, x, y, dy), FALSE)

\* update_collision_map()
RefreshMap ==
    /\ call.op = "init"
    /\ stickman' = update_collision_map(stickman, screen)
    /\ call' = [NoCall(stickman) EXCEPT !.op = "refresh", !.refreshed = TRUE]
    /\ _cached_background_color' =
          get_cached_background_color(_cached_background_color, desktop_color)
    /\ UNCHANGED << screen, mixer, sampling, budget, pc, desktop_color, keys, worker,
                    hook, frame, orphans >>

NextProbe == Collides \/ ResolveHorizontal \/ ResolveVertical \/ RefreshMap

SpecProbe == InitProbe /\ [][NextProbe]_vars

\* C8 reference: some true cell of the grid, translated by the stored offset,
\* lies inside the AABB rectangle at (x, y)
CellInAABB(s, x, y) ==
    /\ s.collision_map # None
    /\ \E c \in s.collision_map[1].cells :
          /\ 0 <= c[1] /\ c[1] < s.collision_map[1].H
          /\ 0 <= c[2] /\ c[2] < s.collision_map[1].W
          /\ Floor(y) <= c[1] + s.collision_map_y
          /\ c[1] + s.collision_map_y < Ceil(y + Px(s.height))
          /\ Floor(x) <= c[2] + s.collision_map_x
          /\ c[2] + s.collision_map_x < Ceil(x + Px(s.width))

\* the AABB rectangle at (x, y) has no pixel in common with the grid
OutsideGrid(s, x, y) ==
    \/ Ceil(x + Px(s.width)) <= s.collision_map_x
    \/ Ceil(y + Px(s.height)) <= s.collision_map_y
    \/ Floor(x) >= s.collision_map_x + s.collision_map[1].W
    \/ Floor(y) >= s.collision_map_y + s.collision_map[1].H

\* C8: _aabb_collides(x, y) is true iff a true cell of the grid lies inside the
\* AABB rectangle translated by the stored offset; so it is false without a map
\* and for a rectangle completely outside the grid.
C8_CollidesIffCellInRectangle ==
    call.op = "collides" =>
        /\ call.hit <=> CellInAABB(call.pre, call.arg[1], call.arg[2])
        /\ call.pre.collision_map = None => ~call.hit
        /\ (call.pre.collision_map # None /\ OutsideGrid(call.pre, call.arg[1], call.arg[2]))
              => ~call.hit

\* a colliding rectangle that sticks out of the grid and was clamped to it
C8_Witness ==
    /\ call.op = "collides"
    /\ call.hit
    /\ Ceil(call.arg[1] + Px(call.pre.width))
          > call.pre.collision_map_x + call.pre.collision_map[1].W

\* the probe a resolver makes at a position along its axis
ResolverProbe(s, op, arg, along) ==
    IF op = "resolve_horizontal"
    THEN _aabb_collides_ignore_bottom(s, along, arg[2], IgnoreRows)
    ELSE _aabb_collides(s, arg[1], along)

\* the start of a resolution along its axis
ResolverStart(op, arg) == IF op = "resolve_horizontal" THEN arg[1] ELSE arg[2]

\* the unit steps a resolution of d may probe
ResolverSteps(d) == 1 .. Ceil(Abs(d)) + 1

\* C3: a stepwise resolver returns a position between the start and the first
\* unit step whose probe collides, never at or past that step.
C3_ResolverStopsBeforeBlockedStep ==
    call.op \in {"resolve_horizontal", "resolve_vertical"} =>
        LET start == ResolverStart(call.op, call.arg)
            dir == Sign(call.arg[3])
            travelled == (call.ret - start) * dir
        IN  /\ travelled >= 0
            /\ \A k \in ResolverSteps(call.arg[3]) :
                  ResolverProbe(call.pre, call.op, call.arg, start + Px(k * dir))
                      => travelled < Px(k)

\* a horizontal resolution that advanced and stopped right before a blocked step
C3_Witness ==
    /\ call.op = "resolve_horizontal"
    /\ call.ret # call.arg[1]
    /\ ResolverProbe(call.pre, call.op, call.arg, call.ret + Px(Sign(call.arg[3])))
    /\ Abs(call.ret - call.arg[1]) < Abs(call.arg[3])

\* C7 (as claimed): right after a collision-map refresh the strict query at the
\* entity's own position is false.
C7_NoSelfCollisionAfterRefresh ==
    call.op = "refresh" =>
        ~_aabb_collides(stickman, stickman.pos[1], stickman.pos[2])

\* ------------------------------------------------------------------ channeling

\* how many times Channeling is triggered
MaxBlasts == 1

\* the App's entity teleported ('a') to the bottom of an empty desktop
InitChannel ==
    /\ stickman = teleport_to_mouse(AppStickman, << 1071, ScreenHeight - 1 >>)
    /\ screen = {}
    /\ Constructed

TriggerByKey ==
    /\ budget.events < MaxBlasts
    /\ PressR

TriggerByVoice ==
    /\ budget.events < MaxBlasts
    /\ VoiceHame

NextChannel == Tick \/ TriggerByKey \/ TriggerByVoice \/ BlastSoundEnds

SpecChannel == InitChannel /\ [][NextChannel]_vars

C10_DeferredEffectNeverDropped ==
    (call.op = "update" /\ call.pre._blast_pos # None /\ call.blast_busy) =>
        stickman._blast_pos # None

\* C11: on_blast_end is never invoked in a tick in which the blast sound
\* channel reports busy: a tick appends to damage_rects only when get_busy()
\* answered False, and appends the blast position registered by kamehameha().
C11_BlastEndsOnlyAfterSound ==
    (call.op = "update" /\ stickman.damage_rects # call.pre.damage_rects) =>
        /\ ~call.blast_busy
        /\ call.pre._blast_pos # None
        /\ stickman.damage_rects = Append(call.pre.damage_rects, call.pre._blast_pos[1])

\* the sound finishes before the timer elapses, and the next tick registers
\* the damage region
C11_Witness ==
    /\ call.op = "update"
    /\ ~call.blast_busy
    /\ call.pre._kamehameha_timer > 1
    /\ Len(stickman.damage_rects) = Len(call.pre.damage_rects) + 1

\* ------------------------------------------------------------------ failing resources

\* a tick in which _blast_sound_channel.get_busy() raises: nothing catches the
\* exception in update() or in App.update_game, so the tick ends there
TickBusyQueryFails ==
    /\ pc = "idle"
    /\ budget.ticks < MaxTicks
    /\ queries_blast_sound(stickman)
    /\ stickman' = update_busy_query_raises(stickman, screen, mixer.aura_busy)
    /\ mixer' = [mixer EXCEPT !.aura_busy = IF stickman.is_flying THEN TRUE ELSE @]
    /\ sampling' = (sampling \/ starts_color_sample(stickman))
    /\ _cached_background_color' =
          IF refreshes(stickman)
          THEN get_cached_background_color(_cached_background_color, desktop_color)
          ELSE _cached_background_color
    /\ call' = [op |-> "update", pre |-> before_move(stickman, screen, mixer.aura_busy),
                blast_busy |-> mixer.blast_busy, arg |-> << >>, ret |-> 0, hit |-> FALSE,
                refreshed |-> refreshes(stickman), fault |-> "get_busy", raised |-> TRUE]
    /\ budget' = [budget EXCEPT !.ticks = Min(@ + 1, MaxTicks)]
    /\ UNCHANGED << screen, pc, desktop_color, keys, worker, hook, frame, orphans >>

\* a tick whose refresh fails in screenshot_to_numpy: nothing catches the
\* exception in get_collision_map, update_collision_map, update() or
\* App.update_game, so the tick ends there; pre is the entity before the tick
TickCaptureFails ==
    /\ pc = "idle"
    /\ budget.ticks < MaxTicks
    /\ refreshes(stickman)
    /\ stickman' = update_capture_raises(stickman)
    /\ call' = [op |-> "update", pre |-> stickman,
                blast_busy |-> mixer.blast_busy, arg |-> << >>, ret |-> 0, hit |-> FALSE,
                refreshed |-> FALSE, fault |-> "screenshot", raised |-> TRUE]
    /\ budget' = [budget EXCEPT !.ticks = Min(@ + 1, MaxTicks)]
    /\ UNCHANGED << screen, mixer, sampling, pc, _cached_background_color, desktop_color, keys, worker,
                    hook, frame, orphans >>

\* the App's entity after 12 or 24 ticks of falling: the next tick refreshes the
\* collision map, for the first or for the second time
FaultStarts == { COLLISION_MAP_DT, 2 * COLLISION_MAP_DT }

InitFault ==
    /\ screen \in { {}, Floor1 }
    /\ \E n \in FaultStarts :
          /\ stickman = QuietTicks(AppStickman, screen, n)
          /\ _cached_background_color = IF n > COLLISION_MAP_DT THEN Some(Gray) ELSE None
    /\ mixer = Quiet
    /\ sampling = FALSE
    /\ call = NoCall(stickman)
    /\ budget = Fresh
    /\ pc = "idle"
    /\ desktop_color = Gray
    /\ keys = {}
    /\ worker = "while"
    /\ hook = IdleHook
    /\ frame = NoFrame
    /\ orphans = << >>

NextFault ==
    \/ BoundedTick \/ TickBusyQueryFails \/ TickCaptureFails
    \/ PressR \/ PressL \/ BlastSoundEnds

SpecFault == InitFault /\ [][NextFault]_vars

\* C12 (as claimed): a tick in which the busy-state query of the blast channel
\* fails finishes normally and ends in the state of a tick that read the
\* channel as not busy: deferred effect applied, flags consumed, sprite chosen.
C12_BusyQueryFailureMeansFinished ==
    (call.op = "update" /\ call.fault = "get_busy") =>
        /\ ~call.raised
        /\ stickman = after_move(call.pre, FALSE)

\* C13 (as claimed): a tick whose refresh fails keeps the previous collision
\* map and its previous offset, and completes its physics step on that map.
C13_CaptureFailureKeepsMap ==
    (call.op = "update" /\ call.fault = "screenshot") =>
        LET kept == [call.pre EXCEPT !.collision_map_provider = None]
            done == update(kept, screen, call.blast_busy, FALSE)
        IN  /\ ~call.raised
            /\ stickman.collision_map = call.pre.collision_map
            /\ stickman.collision_map_x = call.pre.collision_map_x
            /\ stickman.collision_map_y = call.pre.collision_map_y
            /\ stickman.pos = done.pos
            /\ stickman.vel = done.vel

\* ------------------------------------------------------------------ the voice worker beside the main loop

\* update() statement by statement from the voice flags on, so that the voice
\* worker can run between any two of them: lines 438-538 in one step, then the
\* test of each flag with the call it causes, the reset of each flag, animate()
Step(after, m, at, counted) ==
    /\ stickman' = after
    /\ mixer' = m
    /\ pc' = at
    /\ call' = [NoCall(stickman) EXCEPT !.op = "statement"]
    /\ budget' = counted
    /\ UNCHANGED << screen, sampling, _cached_background_color, desktop_color, keys, worker,
                    hook, frame, orphans >>

TickBegin ==
    /\ pc = "idle"
    /\ budget.ticks < MaxTicks
    /\ stickman' = to_voice_flags(before_move(stickman, screen, mixer.aura_busy),
                                  mixer.blast_busy)
    /\ mixer' = [mixer EXCEPT !.aura_busy = IF stickman.is_flying THEN TRUE ELSE @]
    /\ sampling' = (sampling \/ starts_color_sample(stickman))
    /\ _cached_background_color' =
          IF refreshes(stickman)
          THEN get_cached_background_color(_cached_background_color, desktop_color)
          ELSE _cached_background_color
    /\ pc' = "if_hame"
    /\ call' = [NoCall(stickman) EXCEPT !.op = "statement", !.refreshed = refreshes(stickman)]
    /\ budget' = [budget EXCEPT !.ticks = Min(@ + 1, MaxTicks)]
    /\ UNCHANGED << screen, desktop_color, keys, worker, hook, frame, orphans >>

\* lines 541-542
IfHame ==
    /\ pc = "if_hame"
    /\ IF stickman._hame_detected
       THEN Step(kamehameha(stickman), [mixer EXCEPT !.blast_busy = TRUE], "reset_hame",
                 [budget EXCEPT !.hame_calls = Counted(@, TRUE)])
       ELSE Step(stickman, mixer, "if_loud", budget)

\* line 543
ResetHame ==
    /\ pc = "reset_hame"
    /\ Step(reset_hame_flag(stickman), mixer, "if_loud", budget)

\* lines 545-546
IfLoud ==
    /\ pc = "if_loud"
    /\ IF stickman._loud_sound_detected
       THEN Step(fly(stickman),
                 [mixer EXCEPT !.aura_busy = IF stickman.is_flying THEN FALSE ELSE @],
                 "reset_loud", [budget EXCEPT !.loud_calls = Counted(@, TRUE)])
       ELSE Step(stickman, mixer, "animate", budget)

\* line 547
ResetLoud ==
    /\ pc = "reset_loud"
    /\ Step(reset_loud_flag(stickman), mixer, "animate", budget)

\* line 549
TickEnd ==
    /\ pc = "animate"
    /\ Step(animate(stickman), mixer, "idle", budget)

InitVoice ==
    /\ stickman = teleport_to_mouse(AppStickman, << 1071, ScreenHeight - 1 >>)
    /\ screen = {}
    /\ Constructed

NextVoice ==
    \/ TickBegin \/ IfHame \/ ResetHame \/ IfLoud \/ ResetLoud \/ TickEnd
    \/ VoiceHame \/ VoiceLoud

SpecVoice == InitVoice /\ [][NextVoice]_vars

\* C14: under any interleaving of the voice worker with the main loop, a
\* trigger flag is set only by a step of the worker and cleared only by the
\* reset statement of the main loop; the main loop, once it has acted on a
\* flag, resets it as its next statement of the same tick; and the calls of
\* kamehameha() / fly() caused by a flag never outnumber the times the worker
\* set that flag.
C14_Step ==
    /\ budget'.hame_calls <= budget'.hame_sets
    /\ budget'.loud_calls <= budget'.loud_sets
    /\ (~stickman._hame_detected /\ stickman'._hame_detected) =>
          (call'.op = "voice" /\ pc' = pc /\ budget'.hame_sets = budget.hame_sets + 1)
    /\ (~stickman._loud_sound_detected /\ stickman'._loud_sound_detected) =>
          (call'.op = "voice" /\ pc' = pc /\ budget'.loud_sets = budget.loud_sets + 1)
    /\ (stickman._hame_detected /\ ~stickman'._hame_detected) => pc = "reset_hame"
    /\ (stickman._loud_sound_detected /\ ~stickman'._loud_sound_detected) => pc = "reset_loud"
    /\ (budget'.hame_calls # budget.hame_calls) =>
          (stickman._hame_detected /\ pc = "if_hame" /\ pc' = "reset_hame")
    /\ (budget'.loud_calls # budget.loud_calls) =>
          (stickman._loud_sound_detected /\ pc = "if_loud" /\ pc' = "reset_loud")
    /\ (pc = "reset_hame" /\ pc' # pc) => (~stickman'._hame_detected /\ pc' = "if_loud")
    /\ (pc = "reset_loud" /\ pc' # pc) => (~stickman'._loud_sound_detected /\ pc' = "animate")

C14_FlagsConsumedAtMostOnce == [][C14_Step]_vars

\* the worker set the same flag twice, once of them between the main loop's
\* test and its reset, and one call of kamehameha() came of it
C14_Witness ==
    /\ pc = "idle"
    /\ budget.hame_sets = 2
    /\ budget.hame_calls = 1
    /\ budget.ticks = 1
    /\ ~stickman._hame_detected
    /\ stickman.is_kamehameha

\* ------------------------------------------------------------------ the background colour

\* a large window of another colour opens or closes away from the entity, once
\* the classifier has detected its reference: the most common colour of the
\* desktop changes, the pixels around the entity stay as they are
WindowOpens ==
    /\ _cached_background_color # None
    /\ \E color \in DesktopColors \ {desktop_color} : desktop_color' = color
    /\ call' = [NoCall(stickman) EXCEPT !.op = "desktop"]
    /\ UNCHANGED << stickman, screen, mixer, sampling, budget, pc, _cached_background_color, keys, worker,
                    hook, frame, orphans >>

\* the App's entity teleported ('a') to (1000, 200), above a floor or not, the
\* next tick being the first to refresh the collision map
InitColor ==
    /\ stickman = teleport_to_mouse(QuietTicks(AppStickman, {}, COLLISION_MAP_DT),
                                    << 1071, 215 >>)
    /\ screen \in { {}, Floor1 }
    /\ Constructed

NextColor == Tick \/ SampleColorDone \/ WindowOpens

SpecColor == InitColor /\ [][NextColor]_vars

\* C16 (as claimed): once the sampler has published a colour, every refresh of
\* the collision map classifies against the colour published last, that is,
\* the reference of the classifier is the entity's most_common_col.
C16_RefreshUsesPublishedColor ==
    (call.op = "update" /\ call.refreshed /\ budget.published > 0) =>
        _cached_background_color = Some(stickman.most_common_col)


\* ------------------------------------------------------------------ falling

\* a floor far enough below the default position (1000, 200) for a fall to
\* reach max_fall_speed before it lands
FarFloor == { << 400, c >> : c \in 995 .. 1030 }

\* how many keys are pressed while the entity falls
MaxKeys == 1

JumpKey == budget.events < MaxKeys /\ PressI
FlyKey == budget.events < MaxKeys /\ PressE

\* the App's entity as constructed, over an empty desktop or over the floor
InitFall ==
    /\ stickman = AppStickman
    /\ screen \in { {}, FarFloor }
    /\ Constructed

NextFall == Tick \/ JumpKey \/ FlyKey

SpecFall == InitFall /\ [][NextFall]_vars

\* the tick moved the entity vertically without a collision and without
\* reaching a world bound: s is the entity right before _move_and_collide
MovesFreely(s, after) ==
    /\ ~is_on_ground(s)
    /\ can_move_vertical(s, s.vel[2])
    /\ after.pos[2] \notin { 0, YMax(after) }

\* C17: a tick with Flying inactive, the entity airborne, its vertical move
\* not blocked and no world bound reached leaves the vertical velocity at
\* the previous one plus gravity * dt (30 px/s), clamped to max_fall_speed
\* (500 px/s)
C17_Step ==
    (call'.op = "update" /\ ~stickman.is_flying /\ MovesFreely(call'.pre, stickman')) =>
        stickman'.vel[2] =
            Min(stickman.vel[2] + (DefaultGravity \div TARGET_FPS), DefaultMaxFallSpeed)

C17_GravityStepThenClamp == [][C17_Step]_vars

\* a free tick that ended at max_fall_speed, left of and right of a jump
C17_Witness ==
    /\ call.op = "update"
    /\ ~stickman.is_flying
    /\ MovesFreely(call.pre, stickman)
    /\ stickman.vel[2] = DefaultMaxFallSpeed
    /\ budget.events = 1

\* C18: from (1000, 200) at rest, with no obstacle in the map and no input,
\* one tick yields the velocity (0, 30) px/s and the position (1000, 200.5)
NoInput(s) ==
    /\ ~s.is_moving_left /\ ~s.is_moving_right /\ ~s.wants_jump /\ ~s.is_flying
    /\ s.punch_direction = "horizontal"

NoObstacles(s) ==
    s.collision_map = None \/ s.collision_map[1].cells = {}

C18_Step ==
    (/\ call'.op = "update"
     /\ stickman.pos = << Px(1000), Px(200) >>
     /\ stickman.vel = << 0, 0 >>
     /\ NoInput(stickman)
     /\ NoObstacles(call'.pre)) =>
        /\ stickman'.vel = << 0, 30 >>
        /\ stickman'.pos = << Px(1000), Px(200) + 30 >>

C18_FirstTickOfTheFall == [][C18_Step]_vars

C18_Witness ==
    /\ call.op = "update"
    /\ budget.events = 0
    /\ budget.ticks = 1
    /\ NoObstacles(call.pre)
    /\ call.pre.pos = << Px(1000), Px(200) >>
    /\ stickman.vel = << 0, 30 >>
    /\ stickman.pos = << Px(1000), Px(200) + 30 >>

\* ------------------------------------------------------------------ punching

\* the App's entity teleported ('a') to the lower left corner of the screen,
\* where walking left keeps it in place
InitPunch ==
    /\ stickman = teleport_to_mouse(AppStickman, << 0, ScreenHeight - 1 >>)
    /\ screen = {}
    /\ Constructed

NextPunch == Tick \/ PressJ \/ ReleaseJ \/ PressS \/ PressE

SpecPunch == InitPunch /\ [][NextPunch]_vars

Intent(s) == << s.is_moving_left, s.is_moving_right >>

\* the tick in which the punch timer expires: s before it, after after it
PunchExpires(s, after) == s.is_punching /\ ~after.is_punching

\* C19: a punch leaves the movement intent flags as they are, no tick changes
\* them while the punch is active, and the tick in which the punch timer
\* expires with an intent flag held (and neither Channeling nor Flying
\* active) selects a sprite of Moving
C19_Step ==
    /\ (call'.op = "hook" /\ stickman'._punch_timer # stickman._punch_timer) =>
            Intent(stickman') = Intent(stickman)
    /\ (call'.op = "update" /\ stickman.is_punching) =>
            Intent(stickman') = Intent(stickman)
    /\ (/\ call'.op = "update"
        /\ PunchExpires(stickman, stickman')
        /\ stickman.is_moving_left \/ stickman.is_moving_right
        /\ ~stickman'.is_kamehameha /\ ~stickman'.is_flying) =>
            stickman'.sprite_url \in SpritesOf("Moving")

C19_IntentLatchedThroughPunch == [][C19_Step]_vars

\* the punch timer has expired with the left key held since before the punch
C19_Witness ==
    /\ call.op = "update"
    /\ PunchExpires(call.pre, stickman)
    /\ stickman.is_moving_left
    /\ stickman.sprite_url \in SpritesOf("Moving")

\* C20: punch() sets is_punching and the timer to 0.3 s (PunchDuration
\* ticks); every tick takes one tick off a running timer and is_punching is
\* true exactly while time is left on it; nothing else touches either, so
\* is_punching is true for PunchDuration ticks after the last punch and false
\* from then on
C20_Step ==
    /\ (call'.op = "hook" /\ stickman' = punch(stickman)) =>
            stickman'.is_punching /\ stickman'._punch_timer = PunchDuration
    /\ (call'.op = "hook" /\ stickman' # punch(stickman)) =>
            /\ stickman'.is_punching = stickman.is_punching
            /\ stickman'._punch_timer = stickman._punch_timer
    /\ call'.op = "update" =>
            /\ stickman'._punch_timer = Max(stickman._punch_timer - 1, 0)
            /\ stickman'.is_punching <=> stickman'._punch_timer > 0

C20_PunchingLastsItsDuration == [][C20_Step]_vars

\* the tick in which the timer of a punch expires, with no key held
C20_Witness ==
    /\ call.op = "update"
    /\ PunchExpires(call.pre, stickman)
    /\ stickman._punch_timer = 0
    /\ Intent(stickman) = << FALSE, FALSE >>
    /\ stickman.sprite_url = "stickman_idle"

\* ------------------------------------------------------------------ jumping

\* the strict probe one pixel below the position of s, on the map of s
ProbeBelow(s) == _aabb_collides(s, s.pos[1], s.pos[2] + Px(1))

\* the vertical velocity gravity leaves, from vy
Fallen(vy) == Min(vy + (DefaultGravity \div TARGET_FPS), DefaultMaxFallSpeed)

\* C21: a tick that reads a pending jump request resets wants_jump; with
\* Flying inactive the velocity it moves with is -jump_velocity when the
\* probe one pixel below collides and the velocity gravity left when it does
\* not; a tick without a request never applies the impulse
C21_Step ==
    call'.op = "update" =>
        /\ ~stickman'.wants_jump
        /\ ~stickman.is_flying =>
              call'.pre.vel[2] =
                  IF stickman.wants_jump /\ ProbeBelow(call'.pre)
                  THEN -DefaultJumpVelocity
                  ELSE Fallen(stickman.vel[2])

C21_JumpOnlyFromGround == [][C21_Step]_vars

\* the entity has landed on the floor and a tick has turned a request
\* into the impulse
C21_Witness ==
    /\ call.op = "update"
    /\ ~stickman.is_flying /\ ~stickman.wants_jump
    /\ ProbeBelow(call.pre)
    /\ call.pre.vel[2] = -DefaultJumpVelocity
    /\ stickman.vel[2] = -DefaultJumpVelocity

\* ------------------------------------------------------------------ flying

\* the App's entity teleported ('a'), with 'e' pressed and then 'i' either
\* pressed and still down or not touched
InitFly ==
    /\ \E mouse \in StartMice, down \in { {}, {"i"} } :
          /\ keys = down
          /\ stickman =
                LET flying == fly(teleport_to_mouse(AppStickman, mouse))
                IN  IF "i" \in down
                    THEN [flying EXCEPT !.wants_jump = TRUE, !.punch_direction = "up"]
                    ELSE flying
    /\ screen \in Desktops
    /\ mixer = Quiet
    /\ sampling = FALSE
    /\ call = NoCall(stickman)
    /\ budget = Fresh
    /\ pc = "idle"
    /\ _cached_background_color = None
    /\ desktop_color = Gray
    /\ worker = "while"
    /\ hook = IdleHook
    /\ frame = NoFrame
    /\ orphans = << >>

NextFly == BoundedTick \/ PressI \/ PressK \/ ReleaseKI \/ PressE

SpecFly == InitFly /\ [][NextFly]_vars

\* the vertical velocities that agree with the direction keys that are down
HeldVelocity(s, down) ==
    IF down = {"i"} THEN { -s.speed }
    ELSE IF down = {"k"} THEN { s.speed }
    ELSE IF down = {} THEN { 0 }
    ELSE { -s.speed, s.speed }

\* C22: a tick with Flying active moves with the vertical velocity -speed
\* while 'i' (ascend) is down, +speed while 'k' (descend) is down and 0 while
\* neither is down
C22_FlyingVelocityFollowsHeldKeys ==
    (call.op = "update" /\ call.pre.is_flying) =>
        call.pre.vel[2] \in HeldVelocity(call.pre, keys)

\* ------------------------------------------------------------------ horizontal intent

\* C23: the horizontal velocity a tick moves with is -speed with only the
\* left flag held, +speed with only the right flag held and 0 with both or
\* neither; the tick turns the entity to the left or to the right in the
\* first two cases and leaves facing_right as it was in the others
C23_Step ==
    call'.op = "update" =>
        LET only_left == stickman.is_moving_left /\ ~stickman.is_moving_right
            only_right == stickman.is_moving_right /\ ~stickman.is_moving_left
        IN  /\ call'.pre.vel[1] =
                  IF only_left THEN -DefaultSpeed ELSE IF only_right THEN DefaultSpeed ELSE 0
            /\ stickman'.facing_right =
                  IF only_left THEN FALSE ELSE IF only_right THEN TRUE
                  ELSE stickman.facing_right

C23_VelocityFromIntent == [][C23_Step]_vars

\* both keys held by an entity that faces left: it stands and keeps facing left
C23_Witness ==
    /\ call.op = "update"
    /\ stickman.is_moving_left /\ stickman.is_moving_right
    /\ call.pre.vel[1] = 0
    /\ ~stickman.facing_right

\* ------------------------------------------------------------------ refresh cadence

\* the collision map of s and its origin
Snapshot(s) == << s.collision_map, s.collision_map_x, s.collision_map_y >>

\* C24: a tick refreshes the collision map exactly when COLLISION_MAP_DT of
\* ticks had accumulated before it, and then carries the remainder (this
\* tick) over, so that the next refresh is COLLISION_MAP_DT ticks later; any
\* other tick adds itself to the accumulator and leaves the map and its
\* origin as they were, for _move_and_collide and after the tick
C24_Step ==
    call'.op = "update" =>
        LET due == stickman._collision_accum = COLLISION_MAP_DT
        IN  /\ call'.refreshed <=> due
            /\ stickman'._collision_accum = IF due THEN 1 ELSE stickman._collision_accum + 1
            /\ due => stickman'.collision_map # None
            /\ ~due => /\ Snapshot(call'.pre) = Snapshot(stickman)
                       /\ Snapshot(stickman') = Snapshot(stickman)

_voice_detection_loop_uncaught(at, listening, raised) ==
    IF raised THEN "done"
    ELSE CASE at = "while" -> IF listening THEN "hame" ELSE "done"
           [] at = "hame" -> "loud"
           [] at = "loud" -> "sleep"
           [] at = "sleep" -> "while"
           [] OTHER -> "done"

\* _voice_detection_loop: where the worker stands after the statement at `at`;
\* listening is what the while test reads, raised whether the detection of
\* this statement raised an Exception, which its except clause swallows
_voice_detection_loop(at, listening, raised) ==
    CASE at = "while" -> IF listening THEN "hame" ELSE "done"
      [] at = "hame" -> "loud"
      [] at = "loud" -> "sleep"
      [] at = "sleep" -> "while"
      [] OTHER -> "done"

\* what a detection may do: answer True, answer False, or raise
Outcomes == { "true", "false", "raises" }

\* one statement of the voice worker; a detection that answers True sets its
\* flag and counts as an event
WorkerStep ==
    /\ worker # "done"
    /\ \E outcome \in IF worker \in { "hame", "loud" } THEN Outcomes ELSE { "false" } :
          /\ outcome = "true" => budget.events < MaxEvents
          /\ stickman' =
                IF outcome # "true" THEN stickman
                ELSE IF worker = "hame" THEN [stickman EXCEPT !._hame_detected = TRUE]
                ELSE [stickman EXCEPT !._loud_sound_detected = TRUE]
          /\ worker' = _voice_detection_loop(worker, stickman._is_listening, outcome = "raises")
          /\ call' = [NoCall(stickman') EXCEPT
                         !.op = "voice", !.fault = IF outcome = "raises" THEN worker ELSE ""]
          /\ budget' =
                IF outcome # "true" THEN budget
                ELSE IF worker = "hame"
                THEN [budget EXCEPT !.events = @ + 1, !.hame_sets = @ + 1]
                ELSE [budget EXCEPT !.events = @ + 1, !.loud_sets = @ + 1]
    /\ UNCHANGED << screen, mixer, sampling, pc, _cached_background_color, desktop_color, keys,
                    hook, frame, orphans >>

\* sample_color raises in screenshot_to_numpy or get_most_common_color:
\* nothing catches the exception, so it ends the thread, which publishes
\* nothing
SampleColorFails ==
    /\ sampling
    /\ sampling' \in BOOLEAN
    /\ call' = [NoCall(stickman) EXCEPT !.op = "sampler", !.fault = "screenshot",
                                        !.raised = TRUE]
    /\ UNCHANGED << stickman, screen, mixer, budget, pc, _cached_background_color,
                    desktop_color, keys, worker, hook, frame, orphans >>

\* App.shutdown up to the join: stop_keyboard_listener stops the listener and
\* stop_voice_listener clears _is_listening
ShutdownBegins ==
    /\ pc = "idle"
    /\ pc' = "join"
    /\ stickman' = [stickman EXCEPT !._keyboard_listener = None, !._is_listening = FALSE]
    /\ call' = [NoCall(stickman') EXCEPT !.op = "shutdown"]
    /\ UNCHANGED << screen, mixer, sampling, budget, _cached_background_color,
                    desktop_color, keys, worker, hook, frame, orphans >>

\* _voice_thread.join(timeout=2.0) returns, because the worker has returned
\* or because two seconds have passed with the worker inside
\* detect_word_hame (which adjusts for 0.5 s, listens for up to 2 s twice
\* over and then asks a web service), and App.shutdown runs to its end:
\* overlay closed, update timer stopped, QApplication.quit()
JoinReturns ==
    /\ pc = "join"
    /\ worker \in { "done", "hame" }
    /\ pc' = "stopped"
    /\ stickman' = [stickman EXCEPT !._voice_thread = None]
    /\ call' = [NoCall(stickman') EXCEPT !.op = "shutdown"]
    /\ UNCHANGED << screen, mixer, sampling, budget, _cached_background_color,
                    desktop_color, keys, worker, hook, frame, orphans >>

\* the App's entity after 59 ticks: the next tick starts the first
\* colour-sampling thread
InitStop ==
    /\ stickman = QuietTicks(AppStickman, {}, COLOR_SAMPLE_DT - 1)
    /\ screen = {}
    /\ mixer = Quiet
    /\ sampling = FALSE
    /\ call = NoCall(stickman)
    /\ budget = Fresh
    /\ pc = "idle"
    /\ _cached_background_color = Some(Gray)
    /\ desktop_color = Gray
    /\ keys = {}
    /\ worker = "while"
    /\ hook = IdleHook
    /\ frame = NoFrame
    /\ orphans = << >>

NextStop ==
    \/ BoundedTick \/ SampleColorDone \/ SampleColorFails
    \/ WorkerStep \/ ShutdownBegins \/ JoinReturns

SpecStop == InitStop /\ [][NextStop]_vars

\* C25: once App.shutdown has completed, the voice worker has returned and
\* no colour-sampling thread runs
C25_NoWorkerAfterShutdown ==
    pc = "stopped" => (worker = "done" /\ ~sampling)

\* C26 as stated: whatever fails inside a worker is caught inside it
C26_ExceptionsCaughtInIteration ==
    (call.op \in { "voice", "sampler" } /\ call.fault # "") => ~call.raised

\* C26: an exception raised by a detection of the voice worker is caught: it
\* leaves the worker at its next statement and the entity as it was; the
\* worker returns only from the while test with _is_listening false; a
\* colour-sampling thread that raises ends with the exception and changes
\* neither the entity nor where the main loop and the voice worker stand
C26_Step ==
    /\ (call'.op = "voice" /\ call'.fault # "") =>
          /\ ~call'.raised
          /\ worker \in { "hame", "loud" }
          /\ worker' = IF worker = "hame" THEN "loud" ELSE "sleep"
          /\ stickman' = stickman /\ pc' = pc
    /\ (worker # "done" /\ worker' = "done") =>
          (worker = "while" /\ ~stickman._is_listening)
    /\ (call'.op = "sampler" /\ call'.fault # "") =>
          (call'.raised /\ stickman' = stickman /\ pc' = pc /\ worker' = worker)

C26_WorkerFailuresAreContained == [][C26_Step]_vars

\* the loud-sound detection has raised and the worker is about to sleep and
\* loop on
C26_Witness ==
    /\ call.op = "voice" /\ call.fault = "loud"
    /\ worker = "sleep"
    /\ stickman._is_listening
    /\ pc = "idle"

\* ------------------------------------------------------------------ colours of the screen (screen_read.py)

\* An image is [H, W, px]: px holds its H * W pixels row by row, each a
\* colour << B, G, R >> with channels 0 .. 255.  Fractions are << n, d >> with
\* d > 0; the colours used below keep every comparison away from its threshold,
\* where exact and float32 arithmetic could part.
SampleRate == 15
ColorDistanceThreshold == 100

PixelAt(image, y, x) == image.px[y * image.W + x + 1]

\* the pixels get_most_common_color looks at, in its order (lines 116-120)
SampledPixels(image) ==
    LET rows == (image.H + SampleRate - 1) \div SampleRate
        cols == (image.W + SampleRate - 1) \div SampleRate
    IN  [k \in 1 .. rows * cols |->
            PixelAt(image, ((k - 1) \div cols) * SampleRate, ((k - 1) % cols) * SampleRate)]

DistSq(c, d) ==
    (c[1] - d[1]) * (c[1] - d[1]) + (c[2] - d[2]) * (c[2] - d[2])
        + (c[3] - d[3]) * (c[3] - d[3])

\* a group is << sum_b, sum_g, sum_r, count >>
GroupAverage(group) ==
    << group[1] \div group[4], group[2] \div group[4], group[3] \div group[4] >>

\* lines 130-156 for one pixel: it joins the first group whose average is
\* within the threshold, or starts a group
add_to_groups(color_groups, pixel) ==
    LET fits == { i \in 1 .. Len(color_groups) :
                    DistSq(pixel, GroupAverage(color_groups[i]))
                        <= ColorDistanceThreshold * ColorDistanceThreshold }
    IN  IF fits = {} THEN Append(color_groups, << pixel[1], pixel[2], pixel[3], 1 >>)
        ELSE LET i == CHOOSE f \in fits : \A g \in fits : f <= g
                 group == color_groups[i]
             IN  [color_groups EXCEPT ![i] = << group[1] + pixel[1], group[2] + pixel[2],
                                                group[3] + pixel[3], group[4] + 1 >>]

RECURSIVE group_pixels(_, _, _)
group_pixels(sampled_pixels, k, color_groups) ==
    IF k > Len(sampled_pixels) THEN color_groups
    ELSE group_pixels(sampled_pixels, k + 1, add_to_groups(color_groups, sampled_pixels[k]))

\* the last of the groups with the highest count
last_largest_group(color_groups) ==
    LET i == CHOOSE f \in 1 .. Len(color_groups) :
                /\ \A g \in 1 .. Len(color_groups) : color_groups[g][4] <= color_groups[f][4]
                /\ \A g \in f + 1 .. Len(color_groups) : color_groups[g][4] < color_groups[f][4]
    IN  color_groups[i]

\* max(color_groups, key=lambda x: x[3]): the first of the groups with the
\* highest count
most_common_group(color_groups) ==
    LET i == CHOOSE f \in 1 .. Len(color_groups) :
                /\ \A g \in 1 .. Len(color_groups) : color_groups[g][4] <= color_groups[f][4]
                /\ \A g \in 1 .. f - 1 : color_groups[g][4] < color_groups[f][4]
    IN  color_groups[i]

get_most_common_color(image) ==
    LET sampled_pixels == SampledPixels(image)
    IN  IF Len(sampled_pixels) = 0 THEN << 0, 0, 0 >>
        ELSE GroupAverage(most_common_group(group_pixels(sampled_pixels, 1, << >>)))

\* buffers of one row in which 70% of the pixels have the colour a and 30%
\* the colour b, in every arrangement
White == << 255, 255, 255 >>
NearGray == << 150, 150, 150 >>
ColorPairs == { << Gray, White >>, << White, Gray >>, << Gray, NearGray >> }
Widths == { 10, 20 }
Arrangements(w) == { bs \in SUBSET (1 .. w) : 10 * Cardinality(bs) = 3 * w }
TwoColorBuffer(w, pair, bs) ==
    [H |-> 1, W |-> w, px |-> [k \in 1 .. w |-> IF k \in bs THEN pair[2] ELSE pair[1]]]

\* the App's program after its first refresh has cached gray as the reference
InitImage ==
    /\ stickman = AppStickman
    /\ screen = {}
    /\ mixer = Quiet
    /\ sampling = FALSE
    /\ call = NoCall(stickman)
    /\ budget = Fresh
    /\ pc = "idle"
    /\ _cached_background_color = Some(Gray)
    /\ desktop_color = Gray
    /\ keys = {}
    /\ worker = "while"
    /\ hook = IdleHook
    /\ frame = NoFrame
    /\ orphans = << >>

MostCommonColor ==
    /\ call.op = "init"
    /\ \E w \in Widths, pair \in ColorPairs :
        \E bs \in Arrangements(w) :
            LET image == TwoColorBuffer(w, pair, bs)
            IN  Probed("get_most_common_color", image, get_most_common_color(image), FALSE)

NextImage == MostCommonColor

SpecImage == InitImage /\ [][NextImage]_vars

\* the number of pixels of an image that have the colour c, and the number
\* of those among the positions of every 15th row and column
PixelCount(image, c) == Cardinality({ k \in 1 .. Len(image.px) : image.px[k] = c })
SampledCount(image, c) ==
    Cardinality({ p \in (0 .. image.H - 1) \X (0 .. image.W - 1) :
                    /\ p[1] % SampleRate = 0
                    /\ p[2] % SampleRate = 0
                    /\ PixelAt(image, p[1], p[2]) = c })
FarApart(a, b) == DistSq(a, b) > ColorDistanceThreshold * ColorDistanceThreshold
IsShare(image, a, b) ==
    /\ FarApart(a, b)
    /\ 10 * PixelCount(image, a) = 7 * Len(image.px)
    /\ 10 * PixelCount(image, b) = 3 * Len(image.px)

Reversed(c) == << c[3], c[2], c[1] >>

Max3(a, b, c) == Max(a, Max(b, c))
Min3(a, b, c) == Min(a, Min(b, c))

\* |a - b| of two fractions, and whether a fraction is below the threshold 0.1
FracDiff(a, b) == << Abs(a[1] * b[2] - b[1] * a[2]), a[2] * b[2] >>
BelowThreshold(a) == 10 * a[1] < a[2]

RECURSIVE Gcd(_, _)
Gcd(a, b) == IF b = 0 THEN a ELSE Gcd(b, a % b)

\* a fraction in lowest terms
Lowest(a) == LET g == Gcd(a[1], a[2]) IN << a[1] \div g, a[2] \div g >>

\* lightness and saturation of << R, G, B >>, as fractions; both conversions
\* compute them alike
Lightness(rgb) == << Max3(rgb[1], rgb[2], rgb[3]) + Min3(rgb[1], rgb[2], rgb[3]), 510 >>
Saturation(rgb) ==
    LET maxc == Max3(rgb[1], rgb[2], rgb[3])
        minc == Min3(rgb[1], rgb[2], rgb[3])
    IN  IF maxc = minc THEN << 0, 1 >>
        ELSE IF maxc + minc <= 255 THEN Lowest(<< maxc - minc, maxc + minc >>)
        ELSE Lowest(<< maxc - minc, 510 - maxc - minc >>)

\* colorsys.rgb_to_hls: the hue, with r tested first, then g
rgb_to_hls_hue(rgb) ==
    LET r == rgb[1]
        g == rgb[2]
        b == rgb[3]
        maxc == Max3(r, g, b)
        delta == maxc - Min3(r, g, b)
    IN  IF delta = 0 THEN << 0, 1 >>
        ELSE IF r = maxc THEN << (g - b) % (6 * delta), 6 * delta >>
        ELSE IF g = maxc THEN << (2 * delta + b - r) % (6 * delta), 6 * delta >>
        ELSE << (4 * delta + r - g) % (6 * delta), 6 * delta >>

\* lines 245-254: the hue, where a later np.where overrides an earlier one;
\* a gray pixel passes all three tests and ends at 4 / 6
vectorized_hue(rgb) ==
    LET r == rgb[1]
        g == rgb[2]
        b == rgb[3]
        maxc == Max3(r, g, b)
        delta == maxc - Min3(r, g, b)
    IN  IF delta = 0 THEN << 4, 6 >>
        ELSE IF b = maxc THEN << (4 * delta + r - g) % (6 * delta), 6 * delta >>
        ELSE IF g = maxc THEN << (2 * delta + b - r) % (6 * delta), 6 * delta >>
        ELSE << (g - b) % (6 * delta), 6 * delta >>

\* |h1 - h2| around the circle of hues
HueDiff(h1, h2) ==
    LET d == FracDiff(h1, h2)
    IN  IF 2 * d[1] > d[2] THEN << d[2] - d[1], d[2] >> ELSE d

\* colors_are_similar(color1, color2, 0.1, 0.1, 0.1) on << R, G, B >> colours
colors_are_similar(color1, color2) ==
    IF BelowThreshold(Saturation(color1)) \/ BelowThreshold(Saturation(color2))
    THEN BelowThreshold(FracDiff(Lightness(color1), Lightness(color2)))
    ELSE /\ BelowThreshold(HueDiff(rgb_to_hls_hue(color1), rgb_to_hls_hue(color2)))
         /\ BelowThreshold(FracDiff(Lightness(color1), Lightness(color2)))
         /\ BelowThreshold(FracDiff(Saturation(color1), Saturation(color2)))

\* the sum of the saturations of the pixels k .. Len(px), as a fraction
RECURSIVE SaturationSum(_, _)
SaturationSum(px, k) ==
    IF k > Len(px) THEN << 0, 1 >>
    ELSE LET s == Saturation(Reversed(px[k]))
             rest == SaturationSum(px, k + 1)
         IN  Lowest(<< s[1] * rest[2] + rest[1] * s[2], s[2] * rest[2] >>)

\* np.mean(s) < 0.1 over the whole image
MeanSaturationLow(image) ==
    LET sum == SaturationSum(image.px, 1)
    IN  10 * sum[1] < Len(image.px) * sum[2]

\* a classifier without the branch for low saturation
check_color_similarity_always_full(image, target_bgr) ==
    LET target == Reversed(target_bgr)
    IN  [k \in 1 .. Len(image.px) |->
            LET pixel == Reversed(image.px[k])
            IN  /\ BelowThreshold(HueDiff(vectorized_hue(pixel), rgb_to_hls_hue(target)))
                /\ BelowThreshold(FracDiff(Lightness(pixel), Lightness(target)))
                /\ BelowThreshold(FracDiff(Saturation(pixel), Saturation(target)))]

\* check_color_similarity_vectorized(target_bgr) (lines 222-272): for every
\* pixel, whether it is similar to the target
check_color_similarity_vectorized(image, target_bgr) ==
    LET target == Reversed(target_bgr)
        only_lightness == BelowThreshold(Saturation(target)) \/ MeanSaturationLow(image)
    IN  [k \in 1 .. Len(image.px) |->
            LET pixel == Reversed(image.px[k])
            IN  IF only_lightness
                THEN BelowThreshold(FracDiff(Lightness(pixel), Lightness(target)))
                ELSE /\ BelowThreshold(HueDiff(vectorized_hue(pixel), rgb_to_hls_hue(target)))
                     /\ BelowThreshold(FracDiff(Lightness(pixel), Lightness(target)))
                     /\ BelowThreshold(FracDiff(Saturation(pixel), Saturation(target)))]

\* the colours of the entity's sprites, << B, G, R >>
AlwaysBackgroundColors == { << 255, 72, 0 >>, << 0, 141, 255 >>, << 186, 224, 255 >> }

\* image_to_bool_mask(image, target_color): the mask, TRUE for an obstacle;
\* cached is the reference get_cached_background_color() hands back
image_to_bool_mask(image, target_color, cached) ==
    LET target == IF target_color = None THEN cached[1] ELSE target_color[1]
        is_background == check_color_similarity_vectorized(image, target)
    IN  [H |-> image.H, W |-> image.W,
         px |-> [k \in 1 .. Len(image.px) |->
                    ~(\/ is_background[k]
                      \/ \E bg_color \in AlwaysBackgroundColors :
                            check_color_similarity_vectorized(image, bg_color)[k])]]

\* colours to classify: gray, white, a pale red, a pale blue and the orange
\* of the sprites
PaleRed == << 120, 120, 150 >>
PaleBlue == << 150, 120, 120 >>
Palette == { Gray, White, PaleRed, PaleBlue, << 0, 141, 255 >> }
Shapes == { << 1, 1 >>, << 1, 2 >>, << 2, 2 >> }
Images ==
    UNION { { [H |-> shape[1], W |-> shape[2], px |-> px] :
                px \in [1 .. shape[1] * shape[2] -> Palette] } : shape \in Shapes }

\* image_to_bool_mask with the cached reference (as get_collision_map calls
\* it) or with a reference of the caller
Classify ==
    /\ call.op = "init"
    /\ \E image \in Images, target_color \in { None } \cup { Some(c) : c \in Palette } :
        Probed("image_to_bool_mask", << image, target_color >>,
               image_to_bool_mask(image, target_color, _cached_background_color), FALSE)

\* the reference the App has cached is any colour its screen has shown
InitMask ==
    /\ stickman = AppStickman
    /\ screen = {}
    /\ mixer = Quiet
    /\ sampling = FALSE
    /\ call = NoCall(stickman)
    /\ budget = Fresh
    /\ pc = "idle"
    /\ _cached_background_color \in { Some(c) : c \in Palette }
    /\ desktop_color = Gray
    /\ keys = {}
    /\ worker = "while"
    /\ hook = IdleHook
    /\ frame = NoFrame
    /\ orphans = << >>

NextMask == Classify

SpecMask == InitMask /\ [][NextMask]_vars

\* the reference a call of image_to_bool_mask compares with
ActiveReference == IF call.arg[2] = None THEN _cached_background_color[1] ELSE call.arg[2][1]

\* colors_are_similar of one pixel with the reference or with a colour of
\* the sprites
PixelIsBackground(pixel, reference) ==
    \/ colors_are_similar(Reversed(pixel), Reversed(reference))
    \/ \E bg_color \in AlwaysBackgroundColors :
          colors_are_similar(Reversed(pixel), Reversed(bg_color))

\* C28: a pixel of the mask is background (FALSE) exactly when
\* colors_are_similar holds of that pixel and the active reference or an
\* always-background colour, whatever the other pixels of the buffer are.
C28_ClassificationIsPerPixel ==
    call.op = "image_to_bool_mask" =>
        \A k \in 1 .. Len(call.arg[1].px) :
            call.ret.px[k] = ~PixelIsBackground(call.arg[1].px[k], ActiveReference)

Uniform(image, c) == \A k \in 1 .. Len(image.px) : image.px[k] = c

\* C29: for a buffer all of whose pixels equal the active reference colour,
\* image_to_bool_mask returns a mask of the same height and width that is
\* FALSE everywhere.
C29_UniformBufferIsAllBackground ==
    (call.op = "image_to_bool_mask" /\ Uniform(call.arg[1], ActiveReference)) =>
        /\ call.ret.H = call.arg[1].H
        /\ call.ret.W = call.arg[1].W
        /\ DOMAIN call.ret.px = DOMAIN call.arg[1].px
        /\ \A k \in DOMAIN call.ret.px : call.ret.px[k] = FALSE

\* a 2 x 2 buffer of the gray the App has cached, classified against the cache
C29_Witness ==
    /\ call.op = "image_to_bool_mask"
    /\ call.arg[2] = None
    /\ _cached_background_color = Some(Gray)
    /\ call.arg[1].H = 2
    /\ call.arg[1].W = 2
    /\ Uniform(call.arg[1], Gray)
    /\ \A k \in 1 .. 4 : call.ret.px[k] = FALSE

\* ------------------------------------------------------------------ the stepwise fallback in floating point
\* The resolvers add `step` to a float once per iteration and compare the sum
\* with the float x + dx. Every sum is rounded to the precision of the
\* float; the model keeps MantissaBits bits of a position counted in quarter
\* pixels, where the build keeps 53 bits.
MantissaBits == 5
Quarter == Px(1) \div 4

RECURSIVE BitLength(_)
BitLength(n) == IF n = 0 THEN 0 ELSE 1 + BitLength(n \div 2)

RECURSIVE Pow2(_)
Pow2(k) == IF k = 0 THEN 1 ELSE 2 * Pow2(k - 1)

\* the float nearest to n quarter pixels, ties to the even mantissa
Fl(n) ==
    LET a == Abs(n)
        len == BitLength(a)
    IN  IF len <= MantissaBits THEN n
        ELSE LET ulp == Pow2(len - MantissaBits)
                 lo == (a \div ulp) * ulp
                 rounded == IF 2 * (a - lo) > ulp THEN lo + ulp
                            ELSE IF 2 * (a - lo) < ulp THEN lo
                            ELSE IF (lo \div ulp) % 2 = 0 THEN lo
                            ELSE lo + ulp
             IN  IF n < 0 THEN -rounded ELSE rounded

\* the while loop of _resolve_horizontal on floats, in quarter pixels:
\* << the position returned, the unit steps taken >>
RECURSIVE resolve_horizontal_steps(_, _, _, _, _, _)
resolve_horizontal_steps(s, cur, y, target, step, steps) ==
    IF (step > 0 /\ cur < target) \/ (step < 0 /\ cur > target)
    THEN LET nxt == Fl(cur + 4 * step)
         IN  IF _aabb_collides_ignore_bottom(s, nxt * Quarter, y * Quarter, IgnoreRows)
             THEN << cur, steps >>
             ELSE resolve_horizontal_steps(s, nxt, y, target, step, steps + 1)
    ELSE << cur, steps >>

\* the while loop of _resolve_vertical, likewise
RECURSIVE resolve_vertical_steps(_, _, _, _, _, _)
resolve_vertical_steps(s, x, cur, target, step, steps) ==
    IF (step > 0 /\ cur < target) \/ (step < 0 /\ cur > target)
    THEN LET nxt == Fl(cur + 4 * step)
         IN  IF _aabb_collides(s, x * Quarter, nxt * Quarter)
             THEN << cur, steps >>
             ELSE resolve_vertical_steps(s, x, nxt, target, step, steps + 1)
    ELSE << cur, steps >>

\* positions near the top-left corner of the screen that the float holds
\* exactly, and displacements, in quarter pixels; no sum of them reaches the
\* floats that are two pixels apart
FloatPositions == { 0, 4, 15, 30, 31, 46, 62, 64, 80 }
FloatDisplacements == { 2, 4, 8, 12, -2, -4, -8, -12 }
FloatDesktops == { {}, { << r, 40 >> : r \in 0 .. 60 }, { << 45, c >> : c \in 0 .. 60 } }

InitFloat ==
    /\ screen \in FloatDesktops
    /\ \E x, y \in FloatPositions :
          stickman = [get_collision_map([AppStickman EXCEPT !.pos = << 0, 0 >>], screen)
                         EXCEPT !.pos = << x * Quarter, y * Quarter >>]
    /\ mixer = Quiet
    /\ sampling = FALSE
    /\ call = NoCall(stickman)
    /\ budget = Fresh
    /\ pc = "idle"
    /\ _cached_background_color = Some(Gray)
    /\ desktop_color = Gray
    /\ keys = {}
    /\ worker = "while"
    /\ hook = IdleHook
    /\ frame = NoFrame
    /\ orphans = << >>

\* _resolve_horizontal(x, y, dx) from the entity's position
ResolveHorizontalSteps ==
    /\ call.op = "init"
    /\ \E dx \in FloatDisplacements :
          LET x == stickman.pos[1] \div Quarter
              y == stickman.pos[2] \div Quarter
          IN  Probed("resolve_horizontal_steps", << x, y, dx >>,
                     resolve_horizontal_steps(stickman, x, y, Fl(x + dx),
                                              IF dx > 0 THEN 1 ELSE -1, 0), FALSE)

\* _resolve_vertical(x, y, dy) from the entity's position
ResolveVerticalSteps ==
    /\ call.op = "init"
    /\ \E dy \in FloatDisplacements :
          LET x == stickman.pos[1] \div Quarter
              y == stickman.pos[2] \div Quarter
          IN  Probed("resolve_vertical_steps", << x, y, dy >>,
                     resolve_vertical_steps(stickman, x, y, Fl(y + dy),
                                            IF dy > 0 THEN 1 ELSE -1, 0), FALSE)

NextFloat == ResolveHorizontalSteps \/ ResolveVerticalSteps

SpecFloat == InitFloat /\ [][NextFloat]_vars

C31_VelocityZeroAtBounds ==
    call.op = "update" =>
        /\ stickman.pos[1] \in { 0, XMax(stickman) } => stickman.vel[1] = 0
        /\ stickman.pos[2] \in { 0, YMax(stickman) } => stickman.vel[2] = 0

\* a tick that moved left against the left bound with the velocity of a walk
C31_Witness ==
    /\ call.op = "update"
    /\ call.pre.vel[1] < 0
    /\ move_horizontal(call.pre)[2] < 0
    /\ stickman.pos[1] = 0
    /\ stickman.vel[1] = 0

\* ------------------------------------------------------------------ the hook thread beside the main loop
\* update() statement by statement, so that a handler of the keyboard hook
\* thread can run between any two of them, and the handlers statement by
\* statement, so that update() can run between any two of theirs. Python
\* gives no atomicity to a sequence of statements; a statement that reads
\* and writes one attribute (-=) is a load and a store.

\* the main loop is inside a tick and past lines 455-457 of it
PastJump == pc \notin { "idle", "if_wants_jump", "consume_jump" }

\* a statement of update(): the entity, the mixer and the locals after it,
\* and the statement the main loop executes next; call.hit tells that 'i'
\* has been pressed since the tick passed lines 455-457
Main(after, m, at, fr) ==
    /\ pc # "idle"
    /\ stickman' = after
    /\ mixer' = m
    /\ pc' = at
    /\ frame' = fr
    /\ call' = [NoCall(stickman) EXCEPT !.op = "statement", !.hit = call.hit]
    /\ UNCHANGED << screen, sampling, budget, _cached_background_color, desktop_color,
                    keys, worker, hook, orphans >>

\* lines 438-452: the refresh of the map, the colour sample, gravity
RaceBegin ==
    /\ pc = "idle"
    /\ budget.ticks < MaxTicks
    /\ stickman' = apply_gravity(update_color_accum(update_refresh(stickman, screen)))
    /\ sampling' = (sampling \/ starts_color_sample(stickman))
    /\ _cached_background_color' =
          IF refreshes(stickman)
          THEN get_cached_background_color(_cached_background_color, desktop_color)
          ELSE _cached_background_color
    /\ pc' = "if_wants_jump"
    /\ call' = [NoCall(stickman) EXCEPT !.op = "statement", !.refreshed = refreshes(stickman)]
    /\ UNCHANGED << screen, mixer, budget, desktop_color, keys, worker, hook, frame, orphans >>

\* lines 455-456
IfWantsJump ==
    /\ pc = "if_wants_jump"
    /\ IF stickman.wants_jump THEN Main(try_jump(stickman), mixer, "consume_jump", frame)
       ELSE Main(stickman, mixer, "intent", frame)

\* a jump section that leaves wants_jump set
ConsumeJumpKeepsRequest ==
    /\ pc = "consume_jump"
    /\ Main(stickman, mixer, "intent", frame)

\* line 457
ConsumeJump ==
    /\ pc = "consume_jump"
    /\ Main([stickman EXCEPT !.wants_jump = FALSE], mixer, "intent", frame)

\* lines 460-484
IntentToVelocity ==
    /\ pc = "intent"
    /\ Main(update_intent(stickman), mixer, "if_flying", frame)

\* line 487, and lines 501-509 when the entity does not fly
IfFlying ==
    /\ pc = "if_flying"
    /\ IF stickman.is_flying THEN Main(stickman, mixer, "aura_check", frame)
       ELSE Main(update_sounds(stickman, mixer.aura_busy), mixer, "move_read", frame)

\* lines 489-492, and lines 499-500 when the aura still plays
AuraCheck ==
    /\ pc = "aura_check"
    /\ IF stickman._aura_sound_channel = None \/ ~mixer.aura_busy
       THEN Main(stickman, mixer, "aura_play", frame)
       ELSE Main([stickman EXCEPT !._walk_sound_counter = 0, !._flying_sound_counter = 0],
                 mixer, "move_read", frame)

\* lines 493-500
AuraPlay ==
    /\ pc = "aura_play"
    /\ Main([stickman EXCEPT !._aura_sound_channel = Some("aura"),
                             !._walk_sound_counter = 0, !._flying_sound_counter = 0],
            [mixer EXCEPT !.aura_busy = TRUE], "move_read", frame)

\* lines 602-603 of _move_and_collide
MoveRead ==
    /\ pc = "move_read"
    /\ Main(stickman, mixer, "move_write",
            [frame EXCEPT !.x = stickman.pos[1], !.y = stickman.pos[2],
                          !.vx = stickman.vel[1], !.vy = stickman.vel[2]])

\* lines 605-635 from the locals fr; can_move_horizontal and
\* can_move_vertical read self.pos
move_and_collide_from(s, fr) ==
    LET h == IF fr.vx # 0
             THEN IF can_move_horizontal(s, fr.vx) THEN << fr.x + fr.vx, fr.vx >>
                  ELSE << _resolve_horizontal(s, fr.x, fr.y, fr.vx), 0 >>
             ELSE << fr.x, fr.vx >>
        v == IF fr.vy # 0
             THEN IF can_move_vertical(s, fr.vy) THEN << fr.y + fr.vy, fr.vy >>
                  ELSE << _resolve_vertical(s, h[1], fr.y, fr.vy), 0 >>
             ELSE << fr.y, fr.vy >>
    IN  clamp_to_screen(s, h[1], v[1], h[2], v[2])

\* lines 605-635
MoveWrite ==
    /\ pc = "move_write"
    /\ Main(move_and_collide_from(stickman, frame), mixer, "if_punch_timer", frame)

\* line 515
IfPunchTimer ==
    /\ pc = "if_punch_timer"
    /\ Main(stickman, mixer,
            IF stickman._punch_timer > 0 THEN "punch_load" ELSE "if_kamehameha_timer", frame)

\* line 516, the load
PunchLoad ==
    /\ pc = "punch_load"
    /\ Main(stickman, mixer, "punch_store", [frame EXCEPT !.timer = stickman._punch_timer])

\* line 516, the store
PunchStore ==
    /\ pc = "punch_store"
    /\ Main([stickman EXCEPT !._punch_timer = frame.timer - 1], mixer, "if_punch_expired", frame)

\* line 517
IfPunchExpired ==
    /\ pc = "if_punch_expired"
    /\ Main(stickman, mixer,
            IF stickman._punch_timer <= 0 THEN "punch_off" ELSE "if_kamehameha_timer", frame)

\* line 518
PunchOff ==
    /\ pc = "punch_off"
    /\ Main([stickman EXCEPT !.is_punching = FALSE], mixer, "punch_zero", frame)

\* line 519
PunchZero ==
    /\ pc = "punch_zero"
    /\ Main([stickman EXCEPT !._punch_timer = 0], mixer, "if_kamehameha_timer", frame)

\* line 522
IfKamehamehaTimer ==
    /\ pc = "if_kamehameha_timer"
    /\ Main(stickman, mixer,
            IF stickman._kamehameha_timer > 0 THEN "kamehameha_load" ELSE "voice_flags", frame)

\* line 523, the load
KamehamehaLoad ==
    /\ pc = "kamehameha_load"
    /\ Main(stickman, mixer, "kamehameha_store",
            [frame EXCEPT !.timer = stickman._kamehameha_timer])

\* line 523, the store
KamehamehaStore ==
    /\ pc = "kamehameha_store"
    /\ Main([stickman EXCEPT !._kamehameha_timer = frame.timer - 1], mixer, "blast_poll", frame)

\* lines 526-533
BlastPoll ==
    /\ pc = "blast_poll"
    /\ Main(poll_blast_sound(stickman, mixer.blast_busy), mixer, "if_kamehameha_expired", frame)

\* line 535
IfKamehamehaExpired ==
    /\ pc = "if_kamehameha_expired"
    /\ Main(stickman, mixer,
            IF stickman._kamehameha_timer <= 0 THEN "kamehameha_off" ELSE "voice_flags", frame)

\* line 536
KamehamehaOff ==
    /\ pc = "kamehameha_off"
    /\ Main([stickman EXCEPT !.is_kamehameha = FALSE], mixer, "kamehameha_zero", frame)

\* line 537
KamehamehaZero ==
    /\ pc = "kamehameha_zero"
    /\ Main([stickman EXCEPT !._kamehameha_timer = 0], mixer, "blast_clear", frame)

\* line 538
BlastClear ==
    /\ pc = "blast_clear"
    /\ Main([stickman EXCEPT !._blast_pos = None], mixer, "voice_flags", frame)

\* lines 540-547
VoiceFlags ==
    /\ pc = "voice_flags"
    /\ Main(update_voice_flags(stickman),
            [ blast_busy |-> IF stickman._hame_detected THEN TRUE ELSE mixer.blast_busy,
              aura_busy |-> IF stickman._loud_sound_detected /\ stickman.is_flying
                            THEN FALSE ELSE mixer.aura_busy ],
            "animate", frame)

\* line 549: the tick ends
RaceEnd ==
    /\ pc = "animate"
    /\ stickman' = animate(stickman)
    /\ pc' = "idle"
    /\ frame' = NoFrame
    /\ call' = [NoCall(stickman) EXCEPT !.op = "update", !.hit = call.hit]
    /\ budget' = [budget EXCEPT !.ticks = Min(@ + 1, MaxTicks)]
    /\ UNCHANGED << screen, mixer, sampling, _cached_background_color, desktop_color,
                    keys, worker, hook, orphans >>

MainLoop ==
    \/ RaceBegin \/ IfWantsJump \/ ConsumeJump \/ IntentToVelocity
    \/ IfFlying \/ AuraCheck \/ AuraPlay \/ MoveRead \/ MoveWrite
    \/ IfPunchTimer \/ PunchLoad \/ PunchStore \/ IfPunchExpired \/ PunchOff \/ PunchZero
    \/ IfKamehamehaTimer \/ KamehamehaLoad \/ KamehamehaStore \/ BlastPoll
    \/ IfKamehamehaExpired \/ KamehamehaOff \/ KamehamehaZero \/ BlastClear
    \/ VoiceFlags \/ RaceEnd

\* a statement of a handler of the hook thread; the first statement of a
\* handler takes one event of the budget
Handler(from, after, m, to, down) ==
    /\ hook.at = from
    /\ from = "idle" => budget.events < MaxEvents
    /\ stickman' = after
    /\ mixer' = m
    /\ hook' = to
    /\ keys' = down
    /\ call' = [NoCall(after) EXCEPT
                   !.op = "hook", !.hit = call.hit \/ (to.at = "i_direction" /\ PastJump)]
    /\ budget' = [budget EXCEPT !.events = IF from = "idle" THEN @ + 1 ELSE @]
    /\ UNCHANGED << screen, sampling, pc, _cached_background_color, desktop_color,
                    worker, frame, orphans >>

At(label) == [at |-> label, pos |-> << 0, 0 >>]

\* 'r': kamehameha(), lines 277, 278 and 281-297
KeyR_Flag ==
    /\ hook.at = "idle"
    /\ Handler("idle", [stickman EXCEPT !.is_kamehameha = TRUE], mixer, At("r_timer"), keys)
KeyR_Timer ==
    /\ hook.at = "r_timer"
    /\ Handler("r_timer", [stickman EXCEPT !._kamehameha_timer = KamehamehaDuration], mixer,
            At("r_blast"), keys)
KeyR_Blast ==
    /\ hook.at = "r_blast"
    /\ Handler("r_blast",
            [kamehameha(stickman) EXCEPT !.is_kamehameha = stickman.is_kamehameha,
                                         !._kamehameha_timer = stickman._kamehameha_timer],
            [mixer EXCEPT !.blast_busy = TRUE], IdleHook, keys)

\* 's': punch(), lines 267 and 268
KeyS_Flag ==
    /\ hook.at = "idle"
    /\ Handler("idle", [stickman EXCEPT !.is_punching = TRUE], mixer, At("s_timer"), keys)
KeyS_Timer ==
    /\ hook.at = "s_timer"
    /\ Handler("s_timer", [stickman EXCEPT !._punch_timer = PunchDuration], mixer, IdleHook, keys)

\* 'a': teleport_to_mouse(), lines 210-223 and 225
KeyA_Pos ==
    /\ hook.at = "idle"
    /\ \E mouse \in MousePositions :
          LET target == teleport_to_mouse(stickman, mouse).pos
          IN  Handler("idle", [stickman EXCEPT !.pos = target], mixer,
                      [at |-> "a_vel", pos |-> target], keys)
KeyA_Vel ==
    /\ hook.at = "a_vel"
    /\ Handler("a_vel", [stickman EXCEPT !.vel = << 0, 0 >>], mixer, IdleHook, keys)

\* 'd': lines 196 and 198-200
KeyD_Flying ==
    /\ hook.at = "idle"
    /\ Handler("idle", [stickman EXCEPT !.is_flying = FALSE], mixer, At("d_channel"), keys)
KeyD_Channel ==
    /\ hook.at = "d_channel"
    /\ Handler("d_channel", [stickman EXCEPT !._aura_sound_channel = None],
            [mixer EXCEPT !.aura_busy = IF stickman._aura_sound_channel # None THEN FALSE ELSE @],
            IdleHook, keys)

\* 'e': fly(), line 313 and lines 314-321
KeyE_Toggle ==
    /\ hook.at = "idle"
    /\ Handler("idle", [stickman EXCEPT !.is_flying = ~@], mixer, At("e_channel"), keys)
KeyE_Channel ==
    /\ hook.at = "e_channel"
    /\ Handler("e_channel",
            IF stickman.is_flying THEN stickman
            ELSE [stickman EXCEPT !._aura_sound_channel = None],
            [mixer EXCEPT !.aura_busy = IF ~stickman.is_flying /\ stickman._aura_sound_channel # None
                                        THEN FALSE ELSE @],
            IdleHook, keys)

\* 'i': lines 185 and 186
KeyI_Jump ==
    /\ hook.at = "idle"
    /\ Handler("idle", [stickman EXCEPT !.wants_jump = TRUE], mixer, At("i_direction"), keys)
KeyI_Direction ==
    /\ hook.at = "i_direction"
    /\ Handler("i_direction", [stickman EXCEPT !.punch_direction = "up"], mixer, IdleHook,
            keys \cup {"i"})

\* the entity when the ticks under study start, teleported ('a') to the
\* bottom of an empty desktop: at rest; or flying; or (Expiring) with 'i'
\* pressed, 'r' pressed 180 ticks ago and 's' 18 ticks ago, so that both
\* timers run out in the next tick
AtRest == teleport_to_mouse(AppStickman, << 1071, ScreenHeight - 1 >>)
\* n ticks with no key event on an empty desktop, by halves
RECURSIVE QuietFor(_, _)
QuietFor(s, n) ==
    IF n <= 1 THEN QuietTicks(s, {}, n)
    ELSE LET half == QuietFor(s, n \div 2)
         IN  IF half \in {half} THEN QuietFor(half, n - n \div 2) ELSE s

Expiring(s) ==
    [QuietFor(punch(QuietFor(kamehameha(s), KamehamehaDuration - PunchDuration)),
              PunchDuration - 1)
        EXCEPT !.wants_jump = TRUE, !.punch_direction = "up"]

InitRace ==
    /\ stickman \in { AtRest, fly(AtRest), Expiring(AtRest) }
    /\ screen = {}
    /\ mixer = Quiet
    /\ sampling = FALSE
    /\ call = NoCall(stickman)
    /\ budget = Fresh
    /\ pc = "idle"
    /\ _cached_background_color = None
    /\ desktop_color = Gray
    /\ keys = IF stickman.wants_jump THEN {"i"} ELSE {}
    /\ worker = "while"
    /\ hook = IdleHook
    /\ frame = NoFrame
    /\ orphans = << >>

NextRaceChannel == MainLoop \/ KeyR_Flag \/ KeyR_Timer \/ KeyR_Blast

SpecRaceChannel == InitRace /\ [][NextRaceChannel]_vars

\* C32: at the end of every tick, with no handler of the hook thread under
\* way, a stickman that is channeling (is_kamehameha) has time left on
\* _kamehameha_timer, whatever the interleaving of the 'r' handler
\* kamehameha() with update()
C32_ChannelingHasTimeLeft ==
    (call.op = "update" /\ hook.at = "idle") =>
        (stickman.is_kamehameha => stickman._kamehameha_timer > 0)

NextRacePunch == MainLoop \/ KeyS_Flag \/ KeyS_Timer

SpecRacePunch == InitRace /\ [][NextRacePunch]_vars

\* C33: at the end of every tick, with no handler of the hook thread under
\* way, a stickman that is punching (is_punching) has time left on
\* _punch_timer, whatever the interleaving of the 's' handler punch() with
\* update()
C33_PunchingHasTimeLeft ==
    (call.op = "update" /\ hook.at = "idle") =>
        (stickman.is_punching => stickman._punch_timer > 0)

NextRaceTeleport == MainLoop \/ KeyA_Pos \/ KeyA_Vel

SpecRaceTeleport == InitRace /\ [][NextRaceTeleport]_vars

\* the locals of _move_and_collide had it read the position p
FrameAt(fr, p) == [fr EXCEPT !.x = p[1], !.y = p[2]]

\* C34: when _move_and_collide stores the position (lines 634-635) after a
\* teleport of the hook thread has completed since it read self.pos (lines
\* 602-603), the stored position is the teleport target or the tick's
\* movement from the teleport target: the teleport is not lost
C34_TeleportNotLost ==
    [][(/\ pc = "move_write" /\ pc' = "if_punch_timer"
        /\ hook.at = "idle"
        /\ stickman.pos # << frame.x, frame.y >>)
       => \/ stickman'.pos = stickman.pos
          \/ stickman'.pos = move_and_collide_from(stickman, FrameAt(frame, stickman.pos)).pos]_vars

NextRaceAura == MainLoop \/ KeyD_Flying \/ KeyD_Channel \/ KeyE_Toggle \/ KeyE_Channel

SpecRaceAura == InitRace /\ [][NextRaceAura]_vars

\* C35: at the end of every tick, with no handler of the hook thread under
\* way, a stickman that does not fly holds no aura channel
\* (_aura_sound_channel is None), whatever the interleaving of the 'd' and
\* 'e' handlers with update()
C35_NoAuraChannelUnlessFlying ==
    (call.op = "update" /\ hook.at = "idle") =>
        (~stickman.is_flying => stickman._aura_sound_channel = None)

\* ------------------------------------------------------------------ starting and stopping the voice listener

\* start_voice_listener, lines 131-138: a new worker when _voice_thread is
\* None, nothing otherwise
StartVoiceListener ==
    /\ pc = "idle"
    /\ budget.events < MaxEvents
    /\ stickman' = IF stickman._voice_thread = None
                   THEN [stickman EXCEPT !._is_listening = TRUE, !._voice_thread = Some("voice")]
                   ELSE stickman
    /\ worker' = IF stickman._voice_thread = None THEN "while" ELSE worker
    /\ call' = [NoCall(stickman') EXCEPT !.op = "start"]
    /\ budget' = [budget EXCEPT !.events = @ + 1]
    /\ UNCHANGED << screen, mixer, sampling, pc, _cached_background_color, desktop_color,
                    keys, hook, frame, orphans >>

\* stop_voice_listener, lines 163-164: the flag is cleared; with a thread to
\* join the caller waits in join(timeout=2.0)
StopVoiceListener ==
    /\ pc = "idle"
    /\ budget.events < MaxEvents
    /\ stickman' = [stickman EXCEPT !._is_listening = FALSE]
    /\ pc' = IF stickman._voice_thread # None THEN "join" ELSE "idle"
    /\ call' = [NoCall(stickman') EXCEPT !.op = "stop"]
    /\ budget' = [budget EXCEPT !.events = @ + 1]
    /\ UNCHANGED << screen, mixer, sampling, _cached_background_color, desktop_color,
                    keys, worker, hook, frame, orphans >>

\* stop_voice_listener, lines 165-166: join returns, because the worker has
\* returned or because two seconds have passed with the worker inside
\* detect_word_hame, and _voice_thread is cleared whichever it was; a worker
\* that still runs is referred to by nothing from here on
StopReturns ==
    /\ pc = "join"
    /\ worker \in { "done", "hame" }
    /\ pc' = "idle"
    /\ stickman' = [stickman EXCEPT !._voice_thread = None]
    /\ orphans' = IF worker = "done" THEN orphans ELSE Append(orphans, worker)
    /\ worker' = "done"
    /\ call' = [NoCall(stickman') EXCEPT !.op = "stop"]
    /\ UNCHANGED << screen, mixer, sampling, budget, _cached_background_color,
                    desktop_color, keys, hook, frame >>

\* one statement of a voice worker that a stop has left behind; call.hit
\* tells that it has set a trigger flag
OrphanStep ==
    \E i \in DOMAIN orphans :
        /\ orphans[i] # "done"
        /\ \E outcome \in IF orphans[i] \in { "hame", "loud" } THEN Outcomes ELSE { "false" } :
              /\ outcome = "true" => budget.events < MaxEvents
              /\ stickman' =
                    IF outcome # "true" THEN stickman
                    ELSE IF orphans[i] = "hame" THEN [stickman EXCEPT !._hame_detected = TRUE]
                    ELSE [stickman EXCEPT !._loud_sound_detected = TRUE]
              /\ orphans' = [orphans EXCEPT ![i] =
                                _voice_detection_loop(@, stickman._is_listening,
                                                      outcome = "raises")]
              /\ call' = [NoCall(stickman') EXCEPT !.op = "orphan", !.hit = (outcome = "true")]
              /\ budget' = [budget EXCEPT !.events = IF outcome = "true" THEN @ + 1 ELSE @]
        /\ UNCHANGED << screen, mixer, sampling, pc, _cached_background_color, desktop_color,
                        keys, worker, hook, frame >>

NextListener ==
    StartVoiceListener \/ StopVoiceListener \/ StopReturns \/ WorkerStep \/ OrphanStep

\* the entity as __post_init__ leaves it: both listeners started
InitListener ==
    /\ stickman = AppStickman
    /\ screen = {}
    /\ Constructed

SpecListener == InitListener /\ [][NextListener]_vars

\* the voice workers that have not returned
Running == (IF worker # "done" THEN {0} ELSE {}) \cup { i \in DOMAIN orphans : orphans[i] # "done" }

\* C36: whatever the sequence of start_voice_listener and stop_voice_listener
\* calls, at most one voice worker runs, and a worker on which
\* stop_voice_listener has returned sets no trigger flag
C36_OneWorkerAndQuietAfterStop ==
    /\ Cardinality(Running) <= 1
    /\ ~(call.op = "orphan" /\ call.hit)

\* ------------------------------------------------------------------ the resolvers and the displacement

\* C37: the position a stepwise resolver returns does not lie beyond
\* start + d in the direction of travel, fractional d included
C37_ResolverStaysWithinDisplacement ==
    call.op \in { "resolve_horizontal", "resolve_vertical" } =>
        LET start == IF call.op = "resolve_horizontal" THEN call.arg[1] ELSE call.arg[2]
            d == call.arg[3]
        IN  IF d > 0 THEN call.ret <= start + d ELSE call.ret >= start + d

\* ------------------------------------------------------------------ the jump sprite

NextRaceJump == MainLoop \/ KeyI_Jump \/ KeyI_Direction

SpecRaceJump == InitRace /\ [][NextRaceJump]_vars

JumpSprites == { "stickman_jump1", "stickman_jump2", "stickman_jump3" }

\* C38: a tick ends on a jump sprite only if 'i' was pressed after update()
\* had passed its jump section (lines 455-457) and before animate() (line
\* 549) of that tick; a tick with no key event in it never selects one
C38_JumpSpriteOnlyByLatePress ==
    (call.op = "update" /\ stickman.sprite_url \in JumpSprites) => call.hit

\* 'i' pressed inside the tick, after a request was consumed: the jump sprite
C38_Witness ==
    /\ call.op = "update"
    /\ call.hit
    /\ budget.events = 1
    /\ stickman.sprite_url \in JumpSprites
    /\ stickman.wants_jump

\* ------------------------------------------------------------------ the bottom of the screen is no ground

\* C39: a tick that finds a jump request on a walking entity at the bottom
\* bound (y = 1200 - height), with no collision map or with no obstacle cell
\* in the rectangle one pixel below, consumes the request and applies no
\* impulse: the velocity that reaches _move_and_collide is the fallen one,
\* and the entity stays at the bound with vy = 0
C39_Step ==
    (/\ call'.op = "update"
     /\ stickman.wants_jump
     /\ ~stickman.is_flying
     /\ stickman.pos[2] = YMax(stickman)
     /\ ~ProbeBelow(call'.pre))
    => /\ ~stickman'.wants_jump
       /\ call'.pre.vel[2] = Fallen(stickman.vel[2])
       /\ stickman'.pos[2] = YMax(stickman)
       /\ stickman'.vel[2] = 0

C39_NoJumpFromBottomBound == [][C39_Step]_vars

\* 'i' pressed before the first tick, the entity at the bottom bound: after
\* the tick the request is gone and the entity has not left the bound
C39_Witness ==
    /\ call.op = "update"
    /\ budget.ticks = 1
    /\ "i" \in keys
    /\ ~stickman.is_flying
    /\ call.pre.pos[2] = YMax(stickman)
    /\ ~ProbeBelow(call.pre)
    /\ call.pre.vel[2] > 0
    /\ ~stickman.wants_jump
    /\ stickman.pos[2] = YMax(stickman)
    /\ stickman.vel[2] = 0

====
